---------------------------- MODULE Spec2Model ----------------------------
(***************************************************************************)
(* LSG_Version_3 firmware (src/Code/Firmware/LSG_Version_3/src/main.cpp):  *)
(* two 48-pixel LED rings driven by ledRingTask, a button scanner          *)
(* (buttonTask) and a web handler (handleSet) that write the shared        *)
(* scalars currentMode and ringBrightness.  All tasks are FreeRTOS tasks   *)
(* of priority 1 on one core, so they are time-sliced: a task can be       *)
(* preempted between any two accesses to a volatile shared variable.  Each *)
(* action below is one such access together with the local computation     *)
(* around it.                                                              *)
(***************************************************************************)
EXTENDS Integers, Sequences, FiniteSets, TLC

(***************************************************************************)
(* Program constants                                                       *)
(***************************************************************************)
NUM_LEDS == 96
RING_LEDS == 48
numModes == 27
InitialBrightness == 50
debounceDelay == 50

(***************************************************************************)
(* Bounds of the model                                                     *)
(***************************************************************************)
\* The render loop stops after this many iterations: when two modes are in
\* use, and when every mode is.
MaxFrames == 6
MaxModeFrames == 2
\* ... and when one mode runs from power-on: two wipe cycles of mode 4, and
\* more than one turn of every position that wraps at 48
MaxLongFrames == 100
\* ... and when the rainbow of mode 0 takes every start hue and wraps
MaxRainbowFrames == 257
\* The status LED stops after this many advances of its hue.
MaxHueSteps == 12
\* The brightness buttons are pressed at most this many times.
MaxPresses == 2

Min(a, b) == IF a < b THEN a ELSE b
Max(a, b) == IF a > b THEN a ELSE b

\* C's % truncates toward zero; TLA+'s % is the mathematical modulus.
CMod(a, b) == IF a >= 0 THEN a % b ELSE 0 - ((0 - a) % b)

\* int -> uint8_t conversion (FastLED.setBrightness takes a uint8_t).
U8(x) == x % 256

(***************************************************************************)
(* Pixels.  A CRGB value is kept as a sum of layers; a layer is a colour   *)
(* as it was assigned, <<tag, a, b, c, fades>>, tag "rgb" for a CRGB       *)
(* constant and "hsv" for a CHSV(h, s, v) converted on assignment, with    *)
(* the amounts of every fadeToBlackBy applied since.  Black is the empty   *)
(* sum.                                                                    *)
(***************************************************************************)
Black == << >>
Rgb(r, g, b) == << <<"rgb", r, g, b, << >> >> >>
CHSV(h, s, v) == << <<"hsv", U8(h), U8(s), U8(v), << >> >> >>
Blue == Rgb(0, 0, 255)
Red == Rgb(255, 0, 0)
White == Rgb(255, 255, 255)

\* CRGB::operator+= (saturating add of two colours)
AddColor(p, q) == p \o q

\* one pixel of fadeToBlackBy(leds, n, amount)
FadePixel(p, amount) ==
    [k \in 1..Len(p) |-> <<p[k][1], p[k][2], p[k][3], p[k][4], Append(p[k][5], amount)>>]

Pixels == 0..(NUM_LEDS - 1)

fill_solid(buf, from, count, c) ==
    [i \in Pixels |-> IF i >= from /\ i < from + count THEN c ELSE buf[i]]

\* a fade that leaves the buffer as it was
fadeToBlackBySkipped(buf, amount) == buf

fadeToBlackBy(buf, amount) == [i \in Pixels |-> FadePixel(buf[i], amount)]

AllBlack(buf) == \A i \in Pixels : buf[i] = Black

VARIABLES
    \* shared scalars and the output driver
    currentMode, ringBrightness, fastledBrightness,
    \* buttonTask
    bpc, btmp,
    stateModeInc, stateModeDec, stateBrightInc, stateBrightDec,
    lastModeIncState, lastModeDecState, lastBrightIncState, lastBrightDecState,
    \* handleSet
    wpc, hasArgMode, argMode, hasArgBright, argBright, wtmp,
    \* ledRingTask
    rpc, sw, leds,
    startHueRing1, startHueRing2, theatreOffset,
    wipeExp, wipeColor, sideWipeInitialized,
    gHue, toggle, pulseCounter, dropCounter,
    runIndex1, runIndex2, laserPos1, laserPos2, strobeOn, strobeCount,
    cometPos1, cometPos2, bouncePos1, bounceDir1, bouncePos2, bounceDir2,
    swirlX, barPos1, barPos2, rippleCenter1, rippleCenter2,
    shockInitialized, shockExp, shockCenter1, shockCenter2,
    slicePos1, slicePos2, gapPos1, gapPos2,
    \* statusLEDTask
    statusBrightness, increasing, statusHue, pulseRestarted, redState, statusPixel,
    \* observers: they record what happened and decide nothing
    evStart, evDirty, presses, modeBefore, brightBefore,
    frames, shows, cleared, lastRendered, wipeRendered, modeWritten,
    slept, written,
    sinceAccept, gap, scanned, prevPins,
    stationNum, statusSlept, hueSteps

sharedVars == <<currentMode, ringBrightness, fastledBrightness>>
pinVars == <<stateModeInc, stateModeDec, stateBrightInc, stateBrightDec>>
lastVars == <<lastModeIncState, lastModeDecState, lastBrightIncState, lastBrightDecState>>
buttonVars == <<bpc, btmp, pinVars, lastVars>>
webVars == <<wpc, hasArgMode, argMode, hasArgBright, argBright, wtmp, modeBefore,
             brightBefore>>
\* the statics of ledRingTask that were in use before mode 8 was modelled ...
firstStateVars == <<startHueRing1, startHueRing2, theatreOffset, wipeExp, wipeColor,
                    sideWipeInitialized, gHue, toggle, pulseCounter, dropCounter>>
\* ... and those of modes 8 to 26
moreStateVars == <<runIndex1, runIndex2, laserPos1, laserPos2, strobeOn, strobeCount,
                   cometPos1, cometPos2, bouncePos1, bounceDir1, bouncePos2, bounceDir2,
                   swirlX, barPos1, barPos2, rippleCenter1, rippleCenter2,
                   shockInitialized, shockExp, shockCenter1, shockCenter2,
                   slicePos1, slicePos2, gapPos1, gapPos2>>
modeStateVars == <<firstStateVars, moreStateVars>>
renderVars == <<rpc, sw, leds, modeStateVars>>
eventVars == <<evStart, evDirty, presses>>
frameVars == <<frames, shows, cleared, lastRendered, wipeRendered, slept, written>>
timeVars == <<sinceAccept, gap, scanned, prevPins>>
statusVars == <<statusBrightness, increasing, statusHue, pulseRestarted, redState,
                statusPixel, stationNum, statusSlept, hueSteps>>
vars == <<sharedVars, buttonVars, webVars, renderVars, eventVars, frameVars, modeWritten,
          timeVars, statusVars>>

\* "no mode rendered yet"
NoMode == numModes + 100

\* the four buttons, in the order of the digitalRead calls of lines 792-795
Buttons == {"modeInc", "modeDec", "brightInc", "brightDec"}
\* elapsed times are counted in ms up to this value, which stands for "this
\* long or longer"
TimeCap == 2 * debounceDelay
\* "this pin was not sampled yet"
NoSample == "none"

Init ==
    /\ currentMode = 0
    /\ ringBrightness = InitialBrightness
    /\ fastledBrightness = U8(InitialBrightness)
    /\ bpc = "scan"
    /\ btmp = 0
    /\ stateModeInc = "HIGH" /\ stateModeDec = "HIGH"
    /\ stateBrightInc = "HIGH" /\ stateBrightDec = "HIGH"
    /\ lastModeIncState = "HIGH" /\ lastModeDecState = "HIGH"
    /\ lastBrightIncState = "HIGH" /\ lastBrightDecState = "HIGH"
    /\ wpc = "idle"
    /\ hasArgMode = FALSE /\ argMode = << >>
    /\ hasArgBright = FALSE /\ argBright = << >>
    /\ wtmp = 0
    /\ modeBefore = 0 /\ brightBefore = 0
    /\ rpc = "start"
    /\ sw = 0
    /\ leds = [i \in Pixels |-> Black]
    /\ startHueRing1 = 0 /\ startHueRing2 = 0
    /\ theatreOffset = 0
    /\ wipeExp = 0 /\ wipeColor = Blue /\ sideWipeInitialized = FALSE
    /\ gHue = 0
    /\ toggle = FALSE
    /\ pulseCounter = 0
    /\ dropCounter = 0
    /\ runIndex1 = 0 /\ runIndex2 = 0
    /\ laserPos1 = 0 /\ laserPos2 = 0
    /\ strobeOn = FALSE /\ strobeCount = 0
    /\ cometPos1 = 0 /\ cometPos2 = 0
    /\ bouncePos1 = 0 /\ bounceDir1 = 1
    /\ bouncePos2 = 0 /\ bounceDir2 = 1
    /\ swirlX = 0
    /\ barPos1 = 0 /\ barPos2 = 0
    /\ rippleCenter1 = 0 /\ rippleCenter2 = 0
    /\ shockInitialized = FALSE
    /\ shockExp = 0 /\ shockCenter1 = 0 /\ shockCenter2 = 0
    /\ slicePos1 = 0 /\ slicePos2 = 0
    /\ gapPos1 = 0 /\ gapPos2 = 0
    /\ statusBrightness = 0
    /\ increasing = TRUE
    /\ statusHue = 0
    /\ pulseRestarted = FALSE
    /\ redState = FALSE
    /\ statusPixel = Black
    /\ stationNum = 0
    /\ statusSlept = 0
    /\ hueSteps = 0
    /\ evStart = 0 /\ evDirty = FALSE /\ presses = 0
    /\ frames = 0 /\ shows = 0 /\ cleared = FALSE
    /\ lastRendered = NoMode
    /\ wipeRendered = FALSE
    /\ modeWritten = FALSE
    /\ slept = << >>
    /\ written = {}
    /\ sinceAccept = [b \in Buttons |-> TimeCap]
    /\ gap = TimeCap
    /\ scanned = FALSE
    /\ prevPins = [b \in Buttons |-> NoSample]


(***************************************************************************)
(* buttonTask (lines 784-841).  One loop iteration samples the four pins,  *)
(* handles each falling edge in turn and latches the samples.              *)
(***************************************************************************)
PinValues == {"HIGH", "LOW"}
AllPins == PinValues \X PinValues \X PinValues \X PinValues
\* samples <<modeInc, modeDec, brightInc, brightDec>> with only some buttons in use
ModePins == {p \in AllPins : p[3] = "HIGH" /\ p[4] = "HIGH"}
BrightPins == {p \in AllPins : p[1] = "HIGH" /\ p[2] = "HIGH"}

\* a test of the level alone
LowLevel(now, last) == now = "LOW"

FallingEdge(now, last) == now = "LOW" /\ last = "HIGH"

\* the button an if statement of the task handles
ButtonAt(pc) ==
    CASE pc = "inc" -> "modeInc"
      [] pc = "dec" -> "modeDec"
      [] pc = "binc" -> "brightInc"
      [] pc = "bdec" -> "brightDec"

\* the task sleeps ms milliseconds: the time since every accepted event grows
Elapse(ms) ==
    /\ sinceAccept' = [b \in Buttons |->
                          IF sinceAccept[b] + ms > TimeCap THEN TimeCap
                          ELSE sinceAccept[b] + ms]
    /\ UNCHANGED <<gap, scanned, prevPins>>

\* an event of button b is accepted now; gap keeps the time since the one before
Accept(b) ==
    /\ gap' = sinceAccept[b]
    /\ sinceAccept' = [sinceAccept EXCEPT ![b] = 0]
    /\ UNCHANGED <<scanned, prevPins>>

\* the pins are sampled; prevPins keeps the samples of the scan before
Sampled ==
    /\ prevPins' = IF scanned
                   THEN [b \in Buttons |->
                            CASE b = "modeInc" -> stateModeInc
                              [] b = "modeDec" -> stateModeDec
                              [] b = "brightInc" -> stateBrightInc
                              [] b = "brightDec" -> stateBrightDec]
                   ELSE prevPins
    /\ scanned' = TRUE
    /\ UNCHANGED <<sinceAccept, gap>>

\* the edge test of the if statement the button task stands at
EdgeAt(pc) ==
    CASE pc = "inc" -> FallingEdge(stateModeInc, lastModeIncState)
      [] pc = "dec" -> FallingEdge(stateModeDec, lastModeDecState)
      [] pc = "binc" -> FallingEdge(stateBrightInc, lastBrightIncState)
      [] pc = "bdec" -> FallingEdge(stateBrightDec, lastBrightDecState)
      [] OTHER -> FALSE

\* the statement after each of the four if statements
AfterIf(pc) ==
    CASE pc \in {"inc", "inc_d"} -> "dec"
      [] pc \in {"dec", "dec_d"} -> "binc"
      [] pc \in {"binc", "binc_d"} -> "bdec"
      [] pc \in {"bdec", "bdec_d"} -> "latch"
      [] OTHER -> pc

ModeEventPcs == {"inc_w", "inc_d", "dec_w", "dec_c", "dec_f", "dec_d"}
BrightEventPcs == {"binc_w", "binc_c", "binc_f", "binc_a", "binc_s", "binc_d",
                   "bdec_w", "bdec_c", "bdec_f", "bdec_a", "bdec_s", "bdec_d"}

\* the falling edges a sample <<modeInc, modeDec, brightInc, brightDec>> brings
NewEdges(p) ==
    Cardinality({k \in 1..4 : FallingEdge(p[k], lastVars[k])})

\* lines 792-795: the four digitalRead calls.  With limited = TRUE the user
\* presses buttons at most MaxPresses times in all.
ButtonScanFor(Pins, limited, timed) ==
    /\ bpc = "scan"
    /\ \E p \in Pins :
        /\ limited => presses + NewEdges(p) <= MaxPresses
        /\ presses' = IF limited THEN presses + NewEdges(p) ELSE presses
        /\ stateModeInc' = p[1]
        /\ stateModeDec' = p[2]
        /\ stateBrightInc' = p[3]
        /\ stateBrightDec' = p[4]
    /\ bpc' = "inc"
    /\ UNCHANGED <<btmp, lastVars, sharedVars, webVars, renderVars, evStart, evDirty,
                   frameVars, modeWritten,
                   statusVars>>
    /\ IF timed THEN Sampled ELSE UNCHANGED timeVars

ButtonScan(Pins, limited) == ButtonScanFor(Pins, limited, FALSE)

\* an if statement whose edge test fails
ButtonSkip ==
    /\ bpc \in {"inc", "dec", "binc", "bdec"}
    /\ ~EdgeAt(bpc)
    /\ bpc' = AfterIf(bpc)
    /\ UNCHANGED <<btmp, pinVars, lastVars, sharedVars, webVars, renderVars,
                   eventVars, frameVars, modeWritten,
                   timeVars, statusVars>>

\* the read of the shared scalar that starts an accepted event
ButtonReadFor(pc, next, value, timed) ==
    /\ bpc = pc
    /\ EdgeAt(pc)
    /\ btmp' = value
    /\ evStart' = value
    /\ evDirty' = FALSE
    /\ bpc' = next
    /\ UNCHANGED <<pinVars, lastVars, sharedVars, webVars, renderVars, presses,
                   frameVars, modeWritten,
                   statusVars>>
    /\ IF timed THEN Accept(ButtonAt(pc)) ELSE UNCHANGED timeVars

ButtonRead(pc, next, value) == ButtonReadFor(pc, next, value, FALSE)

\* a write of currentMode by the button task
ButtonWriteMode(pc, next, value) ==
    /\ bpc = pc
    /\ currentMode' = value
    /\ modeWritten' = TRUE
    /\ bpc' = next
    /\ UNCHANGED <<btmp, pinVars, lastVars, ringBrightness, fastledBrightness,
                   webVars, renderVars, eventVars, frameVars,
                   timeVars, statusVars>>

\* a write of ringBrightness by the button task
ButtonWriteBright(pc, next, value) ==
    /\ bpc = pc
    /\ ringBrightness' = value
    /\ bpc' = next
    /\ UNCHANGED <<btmp, pinVars, lastVars, currentMode, fastledBrightness,
                   webVars, renderVars, eventVars, frameVars, modeWritten,
                   timeVars, statusVars>>

\* a test of a shared scalar: branch to yes or to no
ButtonTest(pc, cond, yes, no) ==
    /\ bpc = pc
    /\ bpc' = IF cond THEN yes ELSE no
    /\ UNCHANGED <<btmp, pinVars, lastVars, sharedVars, webVars, renderVars,
                   eventVars, frameVars, modeWritten,
                   timeVars, statusVars>>

ModeIncNoWrap(m) == m + 1
\* line 799: (currentMode + 1) % numModes
ModeIncValue(m) == CMod(m + 1, numModes)
\* line 806: currentMode - 1
ModeDecValue(m) == m - 1
\* line 807
ModeBelowZero(m) == m < 0
\* line 808
ModeWrapValue == numModes - 1

\* line 799, the read of currentMode
ModeIncRead == ButtonRead("inc", "inc_w", currentMode)
\* line 799, the write
ModeIncWrite == ButtonWriteMode("inc_w", "inc_d", ModeIncValue(btmp))
\* line 806, the read of currentMode
ModeDecRead == ButtonRead("dec", "dec_w", currentMode)
\* line 806, the write
ModeDecWrite == ButtonWriteMode("dec_w", "dec_c", ModeDecValue(btmp))
\* line 807
ModeDecTest == ButtonTest("dec_c", ModeBelowZero(currentMode), "dec_f", "dec_d")
\* line 808
ModeDecWrap == ButtonWriteMode("dec_f", "dec_d", ModeWrapValue)

\* line 815: ringBrightness + 10
BrightIncValue(b) == b + 10
BrightAboveMaxOffByOne(b) == b > 256
\* line 816
BrightAboveMax(b) == b > 255
\* line 825: ringBrightness - 10
BrightDecValue(b) == b - 10
\* line 826
BrightBelowMin(b) == b < 0

\* line 815, the read of ringBrightness
BrightIncRead == ButtonRead("binc", "binc_w", ringBrightness)
\* line 815, the write
BrightIncWrite == ButtonWriteBright("binc_w", "binc_c", BrightIncValue(btmp))
\* line 816
BrightIncTest == ButtonTest("binc_c", BrightAboveMax(ringBrightness), "binc_f", "binc_a")
\* line 817
BrightIncClamp == ButtonWriteBright("binc_f", "binc_a", 255)
\* line 825, the read of ringBrightness
BrightDecRead == ButtonRead("bdec", "bdec_w", ringBrightness)
\* line 825, the write
BrightDecWrite == ButtonWriteBright("bdec_w", "bdec_c", BrightDecValue(btmp))
\* line 826
BrightDecTest == ButtonTest("bdec_c", BrightBelowMin(ringBrightness), "bdec_f", "bdec_a")
\* line 827
BrightDecClamp == ButtonWriteBright("bdec_f", "bdec_a", 0)

\* lines 818 and 828: the argument of FastLED.setBrightness is read ...
ButtonApplyRead ==
    /\ bpc \in {"binc_a", "bdec_a"}
    /\ btmp' = ringBrightness
    /\ bpc' = IF bpc = "binc_a" THEN "binc_s" ELSE "bdec_s"
    /\ UNCHANGED <<pinVars, lastVars, sharedVars, webVars, renderVars, eventVars,
                   frameVars, modeWritten,
                   timeVars, statusVars>>

\* ... and handed to the driver
ButtonApply ==
    /\ bpc \in {"binc_s", "bdec_s"}
    /\ fastledBrightness' = U8(btmp)
    /\ bpc' = IF bpc = "binc_s" THEN "binc_d" ELSE "bdec_d"
    /\ UNCHANGED <<btmp, pinVars, lastVars, currentMode, ringBrightness, webVars,
                   renderVars, eventVars, frameVars, modeWritten,
                   timeVars, statusVars>>

\* lines 800-802, 809-811, 819-821, 829-831: print and vTaskDelay(debounceDelay)
ButtonDebounceFor(timed) ==
    /\ bpc \in {"inc_d", "dec_d", "binc_d", "bdec_d"}
    /\ bpc' = AfterIf(bpc)
    /\ btmp' = 0
    /\ evStart' = 0
    /\ evDirty' = FALSE
    /\ UNCHANGED <<pinVars, lastVars, sharedVars, webVars, renderVars, presses,
                   frameVars, modeWritten,
                   statusVars>>
    /\ IF timed THEN Elapse(debounceDelay) ELSE UNCHANGED timeVars

ButtonDebounce == ButtonDebounceFor(FALSE)

\* lines 834-839: latch the samples, vTaskDelay(10)
ButtonLatchFor(timed) ==
    /\ bpc = "latch"
    /\ lastModeIncState' = stateModeInc
    /\ lastModeDecState' = stateModeDec
    /\ lastBrightIncState' = stateBrightInc
    /\ lastBrightDecState' = stateBrightDec
    /\ bpc' = "scan"
    /\ UNCHANGED <<btmp, pinVars, sharedVars, webVars, renderVars, eventVars,
                   frameVars, modeWritten,
                   statusVars>>
    /\ IF timed THEN Elapse(10) ELSE UNCHANGED timeVars

ButtonLatch == ButtonLatchFor(FALSE)

\* the reads that start the four events, with the clock running
TimedRead ==
    \/ ButtonReadFor("inc", "inc_w", currentMode, TRUE)
    \/ ButtonReadFor("dec", "dec_w", currentMode, TRUE)
    \/ ButtonReadFor("binc", "binc_w", ringBrightness, TRUE)
    \/ ButtonReadFor("bdec", "bdec_w", ringBrightness, TRUE)

\* the statements of the four events after the read.  MaxPresses steps of 10
\* from InitialBrightness stay inside 0..255, so the two clamping assignments
\* (lines 816 and 826) are not reached and only their tests take part.
EventStep ==
    \/ ModeIncWrite
    \/ ModeDecWrite \/ ModeDecTest \/ ModeDecWrap
    \/ BrightIncWrite \/ BrightIncTest
    \/ BrightDecWrite \/ BrightDecTest
    \/ ButtonApplyRead \/ ButtonApply

ModeButtonStep ==
    \/ ModeIncRead \/ ModeIncWrite
    \/ ModeDecRead \/ ModeDecWrite \/ ModeDecTest \/ ModeDecWrap

BrightButtonStep ==
    \/ BrightIncRead \/ BrightIncWrite \/ BrightIncTest \/ BrightIncClamp
    \/ BrightDecRead \/ BrightDecWrite \/ BrightDecTest \/ BrightDecClamp
    \/ ButtonApplyRead \/ ButtonApply


(***************************************************************************)
(* handleSet (lines 103-119).  A request carries two optional text         *)
(* arguments; String::toInt parses an optional sign and the leading        *)
(* digits, and gives 0 when there are none.                                *)
(***************************************************************************)
DigitChars == <<"0", "1", "2", "3", "4", "5", "6", "7", "8", "9">>
IsDigit(c) == \E k \in 1..10 : DigitChars[k] = c
DigitVal(c) == (CHOOSE k \in 1..10 : DigitChars[k] = c) - 1

RECURSIVE ParseDigits(_, _)
ParseDigits(s, acc) ==
    IF s = << >> \/ ~IsDigit(s[1]) THEN acc
    ELSE ParseDigits(Tail(s), acc * 10 + DigitVal(s[1]))

\* server.arg(name).toInt()
ToInt(s) ==
    IF s = << >> THEN 0
    ELSE IF s[1] = "-" THEN 0 - ParseDigits(Tail(s), 0)
    ELSE ParseDigits(s, 0)

ModeInRangeOffByOne(v) == v >= 0 /\ v <= numModes
BrightInRangeNoUpper(v) == v >= 0
\* line 106
ModeInRange(v) == v >= 0 /\ v < numModes
\* line 112
BrightInRange(v) == v >= 0 /\ v <= 255

\* an optional argument: <<present, text>>
OptArgs(S) == {<<FALSE, << >> >>} \cup {<<TRUE, a>> : a \in S}

\* server.handleClient() dispatches a /set request to handleSet.  With
\* observed = TRUE the mode and the brightness found are recorded.
WebReceive(MArgs, BArgs, observed) ==
    /\ wpc = "idle"
    /\ \E m \in OptArgs(MArgs), b \in OptArgs(BArgs) :
        /\ hasArgMode' = m[1] /\ argMode' = m[2]
        /\ hasArgBright' = b[1] /\ argBright' = b[2]
    /\ wpc' = "mode"
    /\ modeBefore' = IF observed THEN currentMode ELSE modeBefore
    /\ brightBefore' = IF observed THEN ringBrightness ELSE brightBefore
    /\ UNCHANGED <<wtmp, sharedVars, buttonVars, renderVars, eventVars, frameVars,
                   modeWritten,
                   timeVars, statusVars>>

\* lines 104-108 with a mode argument in range
WebSetMode ==
    /\ wpc = "mode"
    /\ hasArgMode /\ ModeInRange(ToInt(argMode))
    /\ currentMode' = ToInt(argMode)
    /\ modeWritten' = TRUE
    /\ evDirty' = (evDirty \/ bpc \in ModeEventPcs)
    /\ wpc' = "bright"
    /\ UNCHANGED <<hasArgMode, argMode, hasArgBright, argBright, modeBefore, brightBefore, wtmp, ringBrightness,
                   fastledBrightness, buttonVars, renderVars, evStart, presses,
                   frameVars,
                   timeVars, statusVars>>

\* lines 104-109 with no mode argument or one out of range
WebSkipMode ==
    /\ wpc = "mode"
    /\ ~(hasArgMode /\ ModeInRange(ToInt(argMode)))
    /\ wpc' = "bright"
    /\ UNCHANGED <<hasArgMode, argMode, hasArgBright, argBright, modeBefore, brightBefore, wtmp, sharedVars,
                   buttonVars, renderVars, eventVars, frameVars, modeWritten,
                   timeVars, statusVars>>

\* lines 110-113 with a brightness argument in range
WebSetBright ==
    /\ wpc = "bright"
    /\ hasArgBright /\ BrightInRange(ToInt(argBright))
    /\ ringBrightness' = ToInt(argBright)
    /\ evDirty' = (evDirty \/ bpc \in BrightEventPcs)
    /\ wpc' = "apply_r"
    /\ UNCHANGED <<hasArgMode, argMode, hasArgBright, argBright, modeBefore, brightBefore, wtmp, currentMode,
                   fastledBrightness, buttonVars, renderVars, evStart, presses,
                   frameVars, modeWritten,
                   timeVars, statusVars>>

\* lines 110-116 with no brightness argument or one out of range
WebSkipBright ==
    /\ wpc = "bright"
    /\ ~(hasArgBright /\ BrightInRange(ToInt(argBright)))
    /\ wpc' = "reply"
    /\ UNCHANGED <<hasArgMode, argMode, hasArgBright, argBright, modeBefore, brightBefore, wtmp, sharedVars,
                   buttonVars, renderVars, eventVars, frameVars, modeWritten,
                   timeVars, statusVars>>

\* line 114: the argument of FastLED.setBrightness is read ...
WebApplyRead ==
    /\ wpc = "apply_r"
    /\ wtmp' = ringBrightness
    /\ wpc' = "apply"
    /\ UNCHANGED <<hasArgMode, argMode, hasArgBright, argBright, modeBefore, brightBefore, sharedVars,
                   buttonVars, renderVars, eventVars, frameVars, modeWritten,
                   timeVars, statusVars>>

\* ... and handed to the driver
WebApply ==
    /\ wpc = "apply"
    /\ fastledBrightness' = U8(wtmp)
    /\ wpc' = "reply"
    /\ UNCHANGED <<hasArgMode, argMode, hasArgBright, argBright, modeBefore, brightBefore, wtmp, currentMode,
                   ringBrightness, buttonVars, renderVars, eventVars, frameVars,
                   modeWritten,
                   timeVars, statusVars>>

\* lines 117-118: the redirect is sent and the handler returns
WebReply ==
    /\ wpc = "reply"
    /\ wpc' = "idle"
    /\ hasArgMode' = FALSE /\ argMode' = << >>
    /\ hasArgBright' = FALSE /\ argBright' = << >>
    /\ wtmp' = 0
    /\ modeBefore' = 0 /\ brightBefore' = 0
    /\ UNCHANGED <<sharedVars, buttonVars, renderVars, eventVars, frameVars,
                   modeWritten,
                   timeVars, statusVars>>

\* handleSet for a request with a mode argument only, run in one piece: its
\* one access to a shared variable is the write of currentMode at line 107
HandleSetMode(MArgs) ==
    /\ wpc = "idle"
    /\ \E a \in MArgs :
        IF ModeInRange(ToInt(a))
        THEN /\ currentMode' = ToInt(a)
             /\ modeWritten' = TRUE
        ELSE UNCHANGED <<currentMode, modeWritten>>
    /\ UNCHANGED <<ringBrightness, fastledBrightness, webVars, buttonVars,
                   renderVars, eventVars, frameVars,
                   timeVars, statusVars>>

WebModeStep == WebSetMode \/ WebSkipMode
WebBrightStep == WebSetBright \/ WebApplyRead \/ WebApply

\* request texts
ModeTexts == {<<"0">>, <<"4">>, <<"2", "6">>, <<"2", "7">>, <<"-", "1">>, <<"x">>}
BrightTexts == {<<"0">>, <<"7">>, <<"2", "5", "5">>, <<"2", "5", "6">>,
                <<"3", "0", "0">>, <<"-", "5">>}
\* requests made while the brightness buttons are in use: 246 is the least
\* brightness that an increase takes above 255, 9 the greatest that a decrease
\* takes below 0
ButtonBrightTexts == {<<"2", "4", "5">>, <<"2", "4", "6">>, <<"9">>, <<"1", "0">>,
                      <<"3", "0", "0">>}

(***************************************************************************)
(* Specifications of the control side: the button task and the web handler *)
(***************************************************************************)
\* the two mode buttons and requests that carry a mode
NextMode ==
    \/ ButtonScan(ModePins, FALSE)
    \/ ButtonSkip
    \/ ModeButtonStep
    \/ ButtonDebounce
    \/ ButtonLatch
    \/ WebReceive(ModeTexts, {}, FALSE)
    \/ WebModeStep
    \/ WebSkipBright
    \/ WebReply

SpecMode == Init /\ [][NextMode]_vars

\* the two brightness buttons and requests that carry a brightness
NextBright ==
    \/ ButtonScan(BrightPins, TRUE)
    \/ ButtonSkip
    \/ BrightButtonStep
    \/ ButtonDebounce
    \/ ButtonLatch
    \/ WebReceive({}, ButtonBrightTexts, FALSE)
    \/ WebSkipMode
    \/ WebBrightStep
    \/ WebSkipBright
    \/ WebReply

SpecBright == Init /\ [][NextBright]_vars

\* the four buttons with the clock of the button task running
NextButtons ==
    \/ ButtonScanFor(AllPins, TRUE, TRUE)
    \/ ButtonSkip
    \/ TimedRead
    \/ EventStep
    \/ ButtonDebounceFor(TRUE)
    \/ ButtonLatchFor(TRUE)

SpecButtons == Init /\ [][NextButtons]_vars

\* requests with both arguments
NextSet ==
    \/ WebReceive(ModeTexts, BrightTexts, TRUE)
    \/ WebModeStep
    \/ WebBrightStep
    \/ WebSkipBright
    \/ WebReply

SpecSet == Init /\ [][NextSet]_vars


(***************************************************************************)
(* fill_ring_with_exact_rainbow (lines 63-79).  The float variables are    *)
(* kept exactly: hue holds whole numbers, error and fractional are counted *)
(* in units of 2^-25 and every float addition is rounded to the 24-bit     *)
(* significand (round to nearest, ties to even).                           *)
(***************************************************************************)
FloatOne == 2 ^ 25
\* line 64
baseIncrement == 5

RoundToMultiple(q, u) ==
    LET r == q % u
        lo == q - r
    IN  IF 2 * r < u THEN lo
        ELSE IF 2 * r > u THEN lo + u
        ELSE IF (lo \div u) % 2 = 0 THEN lo ELSE lo + u

\* a sum below 2.0 rounded to float: the unit in the last place is 2^-23 in
\* [1, 2), 2^-24 in [0.5, 1) and at most 2^-25 below 0.5
FloatRound(q) ==
    IF q >= FloatOne THEN RoundToMultiple(q, 4)
    ELSE IF 2 * q >= FloatOne THEN RoundToMultiple(q, 2)
    ELSE q

\* 256.0 / ringSize rounded toward zero
exactStepTruncated(ringSize) == 16 * ((256 * (2 ^ 21)) \div ringSize)

\* line 65: (float)(256.0 / ringSize), for a quotient in [4, 8), where the unit
\* in the last place of a float is 2^-21 = 16 units of 2^-25
exactStep(ringSize) ==
    LET num == 256 * (2 ^ 21)
        k == num \div ringSize
        r == num % ringSize
    IN  16 * (IF 2 * r < ringSize THEN k
              ELSE IF 2 * r > ringSize THEN k + 1
              ELSE IF k % 2 = 0 THEN k ELSE k + 1)

\* line 66: exactStep - baseIncrement, exact in float
fractional(ringSize) == exactStep(ringSize) - baseIncrement * FloatOne

\* (uint8_t)hue, line 71.  hue reaches 255 + 255; the conversion of a float
\* above 255 goes through a 32-bit integer whose low byte is kept.
HueToU8(hue) == hue % 256

\* the hues written to ring[i], ring[i+1], ..., ring[ringSize-1]
RECURSIVE RainbowFrom(_, _, _, _)
RainbowFrom(i, ringSize, hue, error) ==
    IF i >= ringSize THEN << >>
    ELSE \* s is <<hue, error + fractional>>; as the one element of a set it is
         \* a value computed once, also where an action is tested for being
         \* enabled
         CHOOSE hues \in
             {<<HueToU8(s[1])>> \o
              RainbowFrom(i + 1, ringSize,
                          s[1] + baseIncrement + (IF s[2] >= FloatOne THEN 1 ELSE 0),
                          IF s[2] >= FloatOne THEN s[2] - FloatOne ELSE s[2])
              : s \in {<<hue, FloatRound(error + fractional(ringSize))>>}} : TRUE

RainbowHues(ringSize, startHue) == RainbowFrom(0, ringSize, startHue, 0)

\* lines 70-78: the loop that writes the hues to ring[0], ..., ring[ringSize-1]
fill_ring(buf, from, ringSize, hues) ==
    [i \in Pixels |-> IF i >= from /\ i < from + ringSize
                      THEN CHSV(hues[i - from + 1], 255, 255)
                      ELSE buf[i]]

fill_ring_with_exact_rainbow(buf, from, ringSize, startHue) ==
    fill_ring(buf, from, ringSize, RainbowHues(ringSize, startHue))

(***************************************************************************)
(* ledRingTask (lines 135-727)                                             *)
(***************************************************************************)
\* the modes modelled when the claims about a few modes were checked
ModelledModes == {0, 1, 2, 3, 4, 6, 7, 20, 21, 23}

\* beatsin8 and beatsin16 follow millis(): a sample is any point of the wave.
\* Samples of beatsin8(10, 0, 47) ...
BeatPositions == {0, 47}
\* ... and of the four beatsin16(7 + i, 0, 47, 0, i * 1000)
JugglePositions == {<<0, 0, 0, 0>>, <<47, 12, 30, 5>>}
\* samples of beatsin8(30, 220, 255), line 544
PulseValues == {220, 255}
\* samples of random(NUM_LEDS), line 242 ...
SparklePositions == {0, NUM_LEDS - 1}
\* ... of random(256), line 243 ...
RandomHues == {0, 255}
\* ... of random(RING_LEDS), lines 473, 478, 583, 584, 613, 614 ...
RandomPositions == {0, RING_LEDS - 1}
\* ... and of random8(1, barWidth + 1), lines 641-642, for the three bars
BarHeights == {1, RING_LEDS \div 3}
\* <<heights of ring 1, heights of ring 2>>
BarDraws == {<<[b \in 0..2 |-> 1], [b \in 0..2 |-> RING_LEDS \div 3]>>,
             <<[b \in 0..2 |-> RING_LEDS \div 3], [b \in 0..2 |-> 1]>>,
             <<[b \in 0..2 |-> IF b = 1 THEN 1 ELSE RING_LEDS \div 3],
               [b \in 0..2 |-> IF b = 1 THEN RING_LEDS \div 3 ELSE 1]>>}

ShowNothing(n) == n
\* FastLED.show(): one more frame handed to the driver in this iteration
Show(n) == n + 1

vTaskDelayNone(s, ms) == s
\* vTaskDelay(ms / portTICK_PERIOD_MS): one more sleep of this iteration
vTaskDelay(s, ms) == Append(s, ms)

\* the pixels ring[0], ..., ring[count-1] of a ring that starts at leds[from]
Span(from, count) == from..(from + count - 1)

\* indices written for ring "A", for ring "B", or for the buffer as a whole
\* ("all").  An index is recorded as the code computes it, inside the buffer
\* or not; leds keeps the pixels of the buffer.
Marked(ring, idxs) == {<<ring, i>> : i \in idxs}

\* leds[idx] = c
SetPixel(buf, idx, c) == [p \in Pixels |-> IF p = idx THEN c ELSE buf[p]]

\* the greatest element
SetMax(S) == CHOOSE x \in S : \A y \in S : y <= x

\* for (i = 0; i < n; i++) if (Cond(i)) buf[Idx(i)] = Col(i);
\* a pixel holds the colour of the last iteration that wrote it
LoopWrite(buf, n, Cond(_), Idx(_), Col(_)) ==
    LET taken == {i \in 0..(n - 1) : Cond(i)}
        idxs == [i \in taken |-> Idx(i)]
    IN  [p \in Pixels |->
            LET hits == {i \in taken : idxs[i] = p}
            IN  IF hits = {} THEN buf[p] ELSE Col(SetMax(hits))]

\* the indices that loop writes
LoopIndices(n, Cond(_), Idx(_)) == {Idx(i) : i \in {j \in 0..(n - 1) : Cond(j)}}

\* a reverse mapping that counts from the ring size
MirrorFromRingSize(pos) == RING_LEDS - pos

\* the reverse mapping of ring 2: (RING_LEDS - 1) - pos
Mirror(pos) == (RING_LEDS - 1) - pos

\* a CHSV whose hue or value is the result of a FastLED function of its
\* arguments, kept as the call
CHSVOf(h, s, v) == << <<"hsv", h, s, v, << >> >> >>
\* (uint8_t)(inoise8(x) + offset), x a uint16_t
NoiseHue(x, offset) == <<"inoise8", x % 65536, offset>>
\* sin8(theta), theta a uint8_t
SinBri(theta) == <<"sin8", U8(theta)>>

\* lines 147-149, run once before the loop
RenderStart ==
    /\ rpc = "start"
    /\ sideWipeInitialized' = IF currentMode # 4 THEN FALSE ELSE sideWipeInitialized
    /\ rpc' = "loop"
    /\ UNCHANGED <<sw, leds, startHueRing1, startHueRing2, theatreOffset, wipeExp,
                   wipeColor, gHue, toggle, pulseCounter, dropCounter, moreStateVars,
                   sharedVars, buttonVars, webVars, eventVars, frameVars, modeWritten,
                   timeVars, statusVars>>

SwitchValueCached == IF lastRendered = NoMode THEN currentMode ELSE lastRendered
\* line 156: the mode is read afresh by every switch
SwitchValue == currentMode

\* lines 155-156: the head of an iteration
RenderSwitch(limit) ==
    /\ rpc = "loop"
    /\ frames < limit
    /\ sw' = SwitchValue
    /\ rpc' = "case"
    /\ frames' = frames + 1
    /\ shows' = 0
    /\ cleared' = FALSE
    /\ modeWritten' = FALSE
    /\ slept' = << >>
    /\ written' = {}
    /\ UNCHANGED <<leds, modeStateVars, sharedVars, buttonVars, webVars, eventVars,
                   lastRendered, wipeRendered, timeVars, statusVars>>

\* an end of iteration that moves on to the next mode by itself
FrameDoneAutoAdvance ==
    /\ rpc' = "loop"
    /\ lastRendered' = sw
    /\ currentMode' = CMod(currentMode + 1, numModes)
    /\ UNCHANGED <<sw, ringBrightness, fastledBrightness, buttonVars, webVars,
                   eventVars, frames, cleared, modeWritten, timeVars, statusVars>>

\* what the end of every iteration leaves alone
FrameDone ==
    /\ rpc' = "loop"
    /\ lastRendered' = sw
    /\ UNCHANGED <<sw, sharedVars, buttonVars, webVars, eventVars, frames, cleared,
                   modeWritten, timeVars, statusVars>>

\* case 0 with start hues that are not reduced modulo 256
Case0NoHueWrap ==
    /\ rpc = "case" /\ sw = 0
    /\ leds' = fill_ring_with_exact_rainbow(
                   fill_ring_with_exact_rainbow(leds, 0, RING_LEDS, startHueRing1),
                   RING_LEDS, RING_LEDS, startHueRing2)
    /\ written' = written \cup Marked("A", Span(0, RING_LEDS))
                          \cup Marked("B", Span(RING_LEDS, RING_LEDS))
    /\ startHueRing1' = startHueRing1 + 1
    /\ startHueRing2' = startHueRing2 + 1
    /\ shows' = Show(shows)
    /\ slept' = vTaskDelay(slept, 10)
    /\ FrameDone
    /\ UNCHANGED <<theatreOffset, wipeExp, wipeColor, sideWipeInitialized, gHue, toggle,
                  pulseCounter, dropCounter, moreStateVars, wipeRendered>>

\* case 0, lines 157-164: rainbow cycle
Case0 ==
    /\ rpc = "case" /\ sw = 0
    \* lines 159-160, the hues of each call computed once
    /\ \E hues1 \in {RainbowHues(RING_LEDS, startHueRing1)},
          hues2 \in {RainbowHues(RING_LEDS, startHueRing2)} :
           leds' = fill_ring(fill_ring(leds, 0, RING_LEDS, hues1),
                             RING_LEDS, RING_LEDS, hues2)
    /\ written' = written \cup Marked("A", Span(0, RING_LEDS))
                          \cup Marked("B", Span(RING_LEDS, RING_LEDS))
    /\ startHueRing1' = U8(startHueRing1 + 1)
    /\ startHueRing2' = U8(startHueRing2 + 1)
    /\ shows' = Show(shows)
    /\ slept' = vTaskDelay(slept, 10)
    /\ FrameDone
    /\ UNCHANGED <<theatreOffset, wipeExp, wipeColor, sideWipeInitialized, gHue, toggle,
                  pulseCounter, dropCounter, moreStateVars, wipeRendered>>

\* case 1, lines 166-170: solid blue
Case1 ==
    /\ rpc = "case" /\ sw = 1
    /\ leds' = fill_solid(leds, 0, NUM_LEDS, Blue)
    /\ written' = written \cup Marked("all", Span(0, NUM_LEDS))
    /\ shows' = Show(shows)
    /\ slept' = vTaskDelay(slept, 50)
    /\ FrameDone
    /\ UNCHANGED <<firstStateVars, moreStateVars, wipeRendered>>

\* case 2, lines 172-180: flash white
Case2 ==
    /\ rpc = "case" /\ sw = 2
    /\ leds' = fill_solid(leds, 0, NUM_LEDS, IF toggle THEN White ELSE Black)
    /\ written' = written \cup Marked("all", Span(0, NUM_LEDS))
    /\ toggle' = ~toggle
    /\ shows' = Show(shows)
    /\ slept' = vTaskDelay(slept, 100)
    /\ FrameDone
    /\ UNCHANGED <<startHueRing1, startHueRing2, theatreOffset, wipeExp, wipeColor,
                  sideWipeInitialized, gHue, pulseCounter, dropCounter, moreStateVars,
                  wipeRendered>>

\* case 3, lines 182-194: theatre chase
Case3 ==
    /\ rpc = "case" /\ sw = 3
    /\ leds' = [i \in Pixels |->
                   IF CMod(i + theatreOffset, 3) = 0 THEN White ELSE Black]
    /\ written' = written \cup Marked("all", Span(0, NUM_LEDS))
                          \cup Marked("all", {i \in 0..(NUM_LEDS - 1) :
                                                  CMod(i + theatreOffset, 3) = 0})
    /\ theatreOffset' = U8(theatreOffset + 1)
    /\ shows' = Show(shows)
    /\ slept' = vTaskDelay(slept, 50)
    /\ FrameDone
    /\ UNCHANGED <<startHueRing1, startHueRing2, wipeExp, wipeColor, sideWipeInitialized,
                  gHue, toggle, pulseCounter, dropCounter, moreStateVars, wipeRendered>>

\* case 4, lines 198-205: the clear on first entry
Case4Enter ==
    /\ rpc = "case" /\ sw = 4
    /\ IF ~sideWipeInitialized
       THEN /\ leds' = fill_solid(leds, 0, NUM_LEDS, Black)
            /\ written' = written \cup Marked("all", Span(0, NUM_LEDS))
            /\ shows' = Show(shows)
            /\ wipeExp' = 0
            /\ sideWipeInitialized' = TRUE
            /\ slept' = vTaskDelay(slept, 50)
            /\ cleared' = TRUE
       ELSE UNCHANGED <<leds, written, shows, wipeExp, sideWipeInitialized, slept,
                        cleared>>
    /\ rpc' = "wipe"
    /\ UNCHANGED <<sw, startHueRing1, startHueRing2, theatreOffset, wipeColor, gHue,
                   toggle, pulseCounter, dropCounter, moreStateVars, sharedVars,
                   buttonVars, webVars, eventVars, frames, lastRendered, wipeRendered,
                   modeWritten, timeVars, statusVars>>

\* a wipe colour that is never changed
KeepWipeColor(c) == c

\* line 234
ToggleWipeColor(c) == IF c = Blue THEN Red ELSE Blue

\* case 4, lines 211-236: one step of the wipe
Case4Wipe ==
    /\ rpc = "wipe"
    /\ LET idx1 == wipeExp
           idx2 == 47 - wipeExp
           idx3 == 48 + wipeExp
           idx4 == 95 - wipeExp
       IN  /\ leds' = [i \in Pixels |->
                          IF \/ (idx1 <= idx2 /\ i \in {idx1, idx2})
                             \/ (idx3 <= idx4 /\ i \in {idx3, idx4})
                          THEN wipeColor ELSE leds[i]]
           /\ written' = written
                  \cup Marked("A", IF idx1 <= idx2 THEN {idx1, idx2} ELSE {})
                  \cup Marked("B", IF idx3 <= idx4 THEN {idx3, idx4} ELSE {})
    /\ shows' = Show(shows)
    /\ slept' = vTaskDelay(slept, 15)
    /\ IF wipeExp + 1 > 24
       THEN wipeExp' = 0 /\ wipeColor' = ToggleWipeColor(wipeColor)
       ELSE wipeExp' = wipeExp + 1 /\ UNCHANGED wipeColor
    /\ wipeRendered' = TRUE
    /\ rpc' = "loop"
    /\ lastRendered' = sw
    /\ UNCHANGED <<sw, startHueRing1, startHueRing2, theatreOffset,
                   sideWipeInitialized, gHue, toggle, pulseCounter, dropCounter,
                   moreStateVars, sharedVars, buttonVars, webVars, eventVars, frames,
                   cleared, modeWritten, timeVars, statusVars>>

\* case 5, lines 239-247: sparkle
Case5 ==
    /\ rpc = "case" /\ sw = 5
    /\ \E pos \in SparklePositions, hue \in RandomHues :
        /\ leds' = SetPixel(fadeToBlackBy(leds, 10), pos, CHSV(hue, 200, 255))
        /\ written' = written \cup Marked("all", Span(0, NUM_LEDS))
                              \cup Marked("all", {pos})
    /\ shows' = Show(shows)
    /\ slept' = vTaskDelay(slept, 30)
    /\ FrameDone
    /\ UNCHANGED <<firstStateVars, moreStateVars, wipeRendered>>

\* case 6, lines 249-266: sinelon
Case6 ==
    /\ rpc = "case" /\ sw = 6
    /\ \E pos1 \in BeatPositions, pos2 \in BeatPositions :
        LET faded == fadeToBlackBy(leds, 20)
            pos2Mapped == (RING_LEDS - 1) - pos2
            ring1 == [faded EXCEPT ![pos1] = AddColor(@, CHSV(gHue, 200, 255))]
        IN  /\ leds' = [ring1 EXCEPT ![RING_LEDS + pos2Mapped] =
                                         AddColor(@, CHSV(gHue + 64, 200, 255))]
            /\ written' = written \cup Marked("all", Span(0, NUM_LEDS))
                                  \cup Marked("A", {pos1})
                                  \cup Marked("B", {RING_LEDS + pos2Mapped})
    /\ gHue' = U8(gHue + 1)
    /\ shows' = Show(shows)
    /\ slept' = vTaskDelay(slept, 20)
    /\ FrameDone
    /\ UNCHANGED <<startHueRing1, startHueRing2, theatreOffset, wipeExp, wipeColor,
                  sideWipeInitialized, toggle, pulseCounter, dropCounter, moreStateVars,
                  wipeRendered>>

\* the four dots of one ring added one after the other
RECURSIVE JuggleDots(_, _, _, _, _)
JuggleDots(buf, i, pos, base, hueOffset) ==
    IF i >= 4 THEN buf
    ELSE JuggleDots([buf EXCEPT ![base + pos[i + 1]] =
                                    AddColor(@, CHSV(gHue + hueOffset + i * 32, 200, 255))],
                    i + 1, pos, base, hueOffset)

\* case 7, lines 268-285: juggle
Case7 ==
    /\ rpc = "case" /\ sw = 7
    /\ \E p1 \in JugglePositions, p2 \in JugglePositions :
        LET faded == fadeToBlackBy(leds, 20)
            ring1 == JuggleDots(faded, 0, p1, 0, 0)
            mapped == [k \in 1..4 |-> (RING_LEDS - 1) - p2[k]]
        IN  /\ leds' = JuggleDots(ring1, 0, mapped, RING_LEDS, 128)
            /\ written' = written \cup Marked("all", Span(0, NUM_LEDS))
                                  \cup Marked("A", {p1[k] : k \in 1..4})
                                  \cup Marked("B", {RING_LEDS + mapped[k] : k \in 1..4})
    /\ gHue' = U8(gHue + 1)
    /\ shows' = Show(shows)
    /\ slept' = vTaskDelay(slept, 20)
    /\ FrameDone
    /\ UNCHANGED <<startHueRing1, startHueRing2, theatreOffset, wipeExp, wipeColor,
                  sideWipeInitialized, toggle, pulseCounter, dropCounter, moreStateVars,
                  wipeRendered>>

\* case 8, lines 287-303: running lights
Case8 ==
    /\ rpc = "case" /\ sw = 8
    /\ leds' = SetPixel(SetPixel(fadeToBlackBy(leds, 50), runIndex1, White),
                        runIndex2 + RING_LEDS, White)
    /\ written' = written \cup Marked("all", Span(0, NUM_LEDS))
                          \cup Marked("A", {runIndex1})
                          \cup Marked("B", {runIndex2 + RING_LEDS})
    /\ runIndex1' = CMod(runIndex1 + 1, RING_LEDS)
    /\ runIndex2' = CMod(runIndex2 + 1, RING_LEDS)
    /\ shows' = Show(shows)
    /\ slept' = vTaskDelay(slept, 30)
    /\ FrameDone
    /\ UNCHANGED <<firstStateVars, laserPos1, laserPos2, strobeOn, strobeCount, cometPos1,
                  cometPos2, bouncePos1, bounceDir1, bouncePos2, bounceDir2, swirlX,
                  barPos1, barPos2, rippleCenter1, rippleCenter2, shockInitialized,
                  shockExp, shockCenter1, shockCenter2, slicePos1, slicePos2, gapPos1,
                  gapPos2, wipeRendered>>

\* case 9, lines 305-329: laser sweep, bandWidth = 3
Case9 ==
    /\ rpc = "case" /\ sw = 9
    /\ LET pos1(i) == CMod(laserPos1 + i, RING_LEDS)
           mappedPos(i) == RING_LEDS + Mirror(CMod(laserPos2 + i, RING_LEDS))
           ring1 == LoopWrite(fadeToBlackBy(leds, 40), 3, LAMBDA i : TRUE, pos1,
                              LAMBDA i : CHSV(gHue, 255, 255))
       IN  /\ leds' = LoopWrite(ring1, 3, LAMBDA i : TRUE, mappedPos,
                                LAMBDA i : CHSV(gHue + 64, 255, 255))
           /\ written' = written \cup Marked("all", Span(0, NUM_LEDS))
                  \cup Marked("A", LoopIndices(3, LAMBDA i : TRUE, pos1))
                  \cup Marked("B", LoopIndices(3, LAMBDA i : TRUE, mappedPos))
    /\ laserPos1' = CMod(laserPos1 + 1, RING_LEDS)
    /\ laserPos2' = CMod(laserPos2 + 1, RING_LEDS)
    /\ gHue' = U8(gHue + 1)
    /\ shows' = Show(shows)
    /\ slept' = vTaskDelay(slept, 20)
    /\ FrameDone
    /\ UNCHANGED <<startHueRing1, startHueRing2, theatreOffset, wipeExp, wipeColor,
                  sideWipeInitialized, toggle, pulseCounter, dropCounter, runIndex1,
                  runIndex2, strobeOn, strobeCount, cometPos1, cometPos2, bouncePos1,
                  bounceDir1, bouncePos2, bounceDir2, swirlX, barPos1, barPos2,
                  rippleCenter1, rippleCenter2, shockInitialized, shockExp, shockCenter1,
                  shockCenter2, slicePos1, slicePos2, gapPos1, gapPos2, wipeRendered>>

\* the frame case 10 writes when the brightness it reads (line 336) is
\* brightness
StrobeFrame(brightness) ==
    IF strobeOn THEN fill_solid(leds, 0, NUM_LEDS, CHSV(gHue, 255, brightness))
    ELSE fadeToBlackBy(leds, 80)

\* case 10, lines 331-356: strobe fade; restart stands for random8() < 50
Case10 ==
    /\ rpc = "case" /\ sw = 10
    /\ written' = written \cup Marked("all", Span(0, NUM_LEDS))
    /\ IF strobeOn
       THEN /\ leds' = StrobeFrame(ringBrightness)
            /\ IF strobeCount + 1 > 2
               THEN strobeOn' = FALSE /\ strobeCount' = 0
               ELSE strobeCount' = strobeCount + 1 /\ UNCHANGED strobeOn
       ELSE /\ leds' = StrobeFrame(ringBrightness)
            /\ \E restart \in BOOLEAN : strobeOn' = restart
            /\ UNCHANGED strobeCount
    /\ gHue' = U8(gHue + 1)
    /\ shows' = Show(shows)
    /\ slept' = vTaskDelay(slept, 30)
    /\ FrameDone
    /\ UNCHANGED <<startHueRing1, startHueRing2, theatreOffset, wipeExp, wipeColor,
                  sideWipeInitialized, toggle, pulseCounter, dropCounter, runIndex1,
                  runIndex2, laserPos1, laserPos2, cometPos1, cometPos2, bouncePos1,
                  bounceDir1, bouncePos2, bounceDir2, swirlX, barPos1, barPos2,
                  rippleCenter1, rippleCenter2, shockInitialized, shockExp, shockCenter1,
                  shockCenter2, slicePos1, slicePos2, gapPos1, gapPos2, wipeRendered>>

\* case 11, lines 358-377: orbiting comets
Case11 ==
    /\ rpc = "case" /\ sw = 11
    /\ LET mapped1 == (RING_LEDS - 1) - cometPos1
           mapped2 == (RING_LEDS - 1) - cometPos2
           a1 == SetPixel(fadeToBlackBy(leds, 40), cometPos1, CHSV(gHue, 255, 255))
           a2 == SetPixel(a1, cometPos2, CHSV(gHue + 32, 255, 255))
           b1 == SetPixel(a2, RING_LEDS + mapped1, CHSV(gHue + 64, 255, 255))
       IN  /\ leds' = SetPixel(b1, RING_LEDS + mapped2, CHSV(gHue + 96, 255, 255))
           /\ written' = written \cup Marked("all", Span(0, NUM_LEDS))
                  \cup Marked("A", {cometPos1, cometPos2})
                  \cup Marked("B", {RING_LEDS + mapped1, RING_LEDS + mapped2})
    /\ cometPos1' = CMod(cometPos1 + 1, RING_LEDS)
    /\ cometPos2' = CMod(cometPos2 + 2, RING_LEDS)
    /\ gHue' = U8(gHue + 1)
    /\ shows' = Show(shows)
    /\ slept' = vTaskDelay(slept, 30)
    /\ FrameDone
    /\ UNCHANGED <<startHueRing1, startHueRing2, theatreOffset, wipeExp, wipeColor,
                  sideWipeInitialized, toggle, pulseCounter, dropCounter, runIndex1,
                  runIndex2, laserPos1, laserPos2, strobeOn, strobeCount, bouncePos1,
                  bounceDir1, bouncePos2, bounceDir2, swirlX, barPos1, barPos2,
                  rippleCenter1, rippleCenter2, shockInitialized, shockExp, shockCenter1,
                  shockCenter2, slicePos1, slicePos2, gapPos1, gapPos2, wipeRendered>>

\* a direction that turns at the far end of the ring only
BounceDirFarEndOnly(pos, dir) == IF pos >= RING_LEDS - 1 THEN 0 - dir ELSE dir

\* lines 393-400: the direction after the move to pos
BounceDir(pos, dir) == IF pos >= RING_LEDS - 1 \/ pos <= 0 THEN 0 - dir ELSE dir

\* case 12, lines 379-403: colour bounce
Case12 ==
    /\ rpc = "case" /\ sw = 12
    /\ LET mappedBounce == (RING_LEDS - 1) - bouncePos2
       IN  /\ leds' = SetPixel(SetPixel(fadeToBlackBy(leds, 50), bouncePos1,
                                        CHSV(gHue, 255, 255)),
                               RING_LEDS + mappedBounce, CHSV(gHue + 64, 255, 255))
           /\ written' = written \cup Marked("all", Span(0, NUM_LEDS))
                  \cup Marked("A", {bouncePos1})
                  \cup Marked("B", {RING_LEDS + mappedBounce})
    /\ bouncePos1' = bouncePos1 + bounceDir1
    /\ bounceDir1' = BounceDir(bouncePos1 + bounceDir1, bounceDir1)
    /\ bouncePos2' = bouncePos2 + bounceDir2
    /\ bounceDir2' = BounceDir(bouncePos2 + bounceDir2, bounceDir2)
    /\ gHue' = U8(gHue + 1)
    /\ shows' = Show(shows)
    /\ slept' = vTaskDelay(slept, 40)
    /\ FrameDone
    /\ UNCHANGED <<startHueRing1, startHueRing2, theatreOffset, wipeExp, wipeColor,
                  sideWipeInitialized, toggle, pulseCounter, dropCounter, runIndex1,
                  runIndex2, laserPos1, laserPos2, strobeOn, strobeCount, cometPos1,
                  cometPos2, swirlX, barPos1, barPos2, rippleCenter1, rippleCenter2,
                  shockInitialized, shockExp, shockCenter1, shockCenter2, slicePos1,
                  slicePos2, gapPos1, gapPos2, wipeRendered>>

\* the frame case 13 writes when the brightness it reads (lines 410, 416) is
\* brightness
SwirlFrame(brightness) ==
    LET idxA(i) == i
        idxB(i) == RING_LEDS + Mirror(i)
        ring1 == LoopWrite(leds, RING_LEDS, LAMBDA i : TRUE, idxA,
                    LAMBDA i : CHSVOf(NoiseHue(i * 40 + swirlX, 0), 255,
                                      U8(brightness)))
    IN  LoopWrite(ring1, RING_LEDS, LAMBDA i : TRUE, idxB,
                  LAMBDA i : CHSVOf(NoiseHue(i * 40 + swirlX, 64), 255,
                                    U8(brightness)))

\* case 13, lines 405-422: psychedelic swirl
Case13 ==
    /\ rpc = "case" /\ sw = 13
    /\ LET idxA(i) == i
           idxB(i) == RING_LEDS + Mirror(i)
       IN  /\ leds' = SwirlFrame(ringBrightness)
           /\ written' = written
                  \cup Marked("A", LoopIndices(RING_LEDS, LAMBDA i : TRUE, idxA))
                  \cup Marked("B", LoopIndices(RING_LEDS, LAMBDA i : TRUE, idxB))
    /\ swirlX' = (swirlX + 30) % 65536
    /\ shows' = Show(shows)
    /\ slept' = vTaskDelay(slept, 20)
    /\ FrameDone
    /\ UNCHANGED <<firstStateVars, runIndex1, runIndex2, laserPos1, laserPos2, strobeOn,
                  strobeCount, cometPos1, cometPos2, bouncePos1, bounceDir1, bouncePos2,
                  bounceDir2, barPos1, barPos2, rippleCenter1, rippleCenter2,
                  shockInitialized, shockExp, shockCenter1, shockCenter2, slicePos1,
                  slicePos2, gapPos1, gapPos2, wipeRendered>>

\* the frame case 14 writes when the brightness it reads (lines 430, 439) is
\* brightness
GridFrame(brightness) ==
    LET offset == CMod(gHue, 4 * 2)
        lit(i) == CMod(i + offset, 4 * 2) < 4
        idxA(i) == i
        idxB(i) == RING_LEDS + Mirror(i)
        ring1 == LoopWrite(leds, RING_LEDS, LAMBDA i : TRUE, idxA,
                    LAMBDA i : IF lit(i) THEN CHSV(gHue, 255, brightness)
                               ELSE Black)
    IN  LoopWrite(ring1, RING_LEDS, LAMBDA i : TRUE, idxB,
                  LAMBDA i : IF lit(i) THEN CHSV(gHue + 64, 255, brightness)
                             ELSE Black)

\* case 14, lines 424-448: neon grid, stripeWidth = 4
Case14 ==
    /\ rpc = "case" /\ sw = 14
    /\ LET idxA(i) == i
           idxB(i) == RING_LEDS + Mirror(i)
       IN  /\ leds' = GridFrame(ringBrightness)
           /\ written' = written
                  \cup Marked("A", LoopIndices(RING_LEDS, LAMBDA i : TRUE, idxA))
                  \cup Marked("B", LoopIndices(RING_LEDS, LAMBDA i : TRUE, idxB))
    /\ gHue' = U8(gHue + 1)
    /\ shows' = Show(shows)
    /\ slept' = vTaskDelay(slept, 30)
    /\ FrameDone
    /\ UNCHANGED <<startHueRing1, startHueRing2, theatreOffset, wipeExp, wipeColor,
                  sideWipeInitialized, toggle, pulseCounter, dropCounter, moreStateVars,
                  wipeRendered>>

\* case 15, lines 450-466: echo waves
Case15 ==
    /\ rpc = "case" /\ sw = 15
    /\ LET idxA(i) == i
           idxB(i) == RING_LEDS + Mirror(i)
           ring1 == LoopWrite(leds, RING_LEDS, LAMBDA i : TRUE, idxA,
                       LAMBDA i : CHSVOf(gHue, 255, SinBri(i * 10 + gHue)))
       IN  /\ leds' = LoopWrite(ring1, RING_LEDS, LAMBDA i : TRUE, idxB,
                          LAMBDA i : CHSVOf(U8(gHue + 96), 255, SinBri(i * 10 + gHue)))
           /\ written' = written
                  \cup Marked("A", LoopIndices(RING_LEDS, LAMBDA i : TRUE, idxA))
                  \cup Marked("B", LoopIndices(RING_LEDS, LAMBDA i : TRUE, idxB))
    /\ gHue' = U8(gHue + 1)
    /\ shows' = Show(shows)
    /\ slept' = vTaskDelay(slept, 20)
    /\ FrameDone
    /\ UNCHANGED <<startHueRing1, startHueRing2, theatreOffset, wipeExp, wipeColor,
                  sideWipeInitialized, toggle, pulseCounter, dropCounter, moreStateVars,
                  wipeRendered>>

\* case 16, lines 468-486: firefly dance; fly1 and fly2 stand for random8() < 80
Case16 ==
    /\ rpc = "case" /\ sw = 16
    /\ \E fly1 \in BOOLEAN, fly2 \in BOOLEAN,
          pos1 \in RandomPositions, pos2 \in RandomPositions :
        LET mapped == (RING_LEDS - 1) - pos2
            faded == fadeToBlackBy(leds, 30)
            ring1 == IF fly1 THEN SetPixel(faded, pos1, CHSV(gHue, 200, 255)) ELSE faded
        IN  /\ fly1 \/ pos1 = 0
            /\ fly2 \/ pos2 = 0
            /\ leds' = IF fly2
                       THEN SetPixel(ring1, RING_LEDS + mapped, CHSV(gHue + 64, 200, 255))
                       ELSE ring1
            /\ written' = written \cup Marked("all", Span(0, NUM_LEDS))
                   \cup Marked("A", IF fly1 THEN {pos1} ELSE {})
                   \cup Marked("B", IF fly2 THEN {RING_LEDS + mapped} ELSE {})
    /\ gHue' = U8(gHue + 1)
    /\ shows' = Show(shows)
    /\ slept' = vTaskDelay(slept, 30)
    /\ FrameDone
    /\ UNCHANGED <<startHueRing1, startHueRing2, theatreOffset, wipeExp, wipeColor,
                  sideWipeInitialized, toggle, pulseCounter, dropCounter, moreStateVars,
                  wipeRendered>>

\* the frame case 17 writes when the brightness it reads (lines 495, 503) is
\* brightness
BarFrame(brightness) ==
    LET pos1(i) == CMod(barPos1 + i, RING_LEDS)
        mapped(i) == RING_LEDS + Mirror(CMod(barPos2 + i, RING_LEDS))
        ring1 == LoopWrite(fill_solid(leds, 0, RING_LEDS, Black), 6,
                           LAMBDA i : TRUE, pos1,
                           LAMBDA i : CHSV(gHue, 255, brightness))
    IN  LoopWrite(fill_solid(ring1, RING_LEDS, RING_LEDS, Black), 6,
                  LAMBDA i : TRUE, mapped,
                  LAMBDA i : CHSV(gHue + 64, 255, brightness))

\* case 17, lines 488-511: spinning bar, barWidth = 6
Case17 ==
    /\ rpc = "case" /\ sw = 17
    /\ LET pos1(i) == CMod(barPos1 + i, RING_LEDS)
           mapped(i) == RING_LEDS + Mirror(CMod(barPos2 + i, RING_LEDS))
       IN  /\ leds' = BarFrame(ringBrightness)
           /\ written' = written
                  \cup Marked("A", Span(0, RING_LEDS))
                  \cup Marked("A", LoopIndices(6, LAMBDA i : TRUE, pos1))
                  \cup Marked("B", Span(RING_LEDS, RING_LEDS))
                  \cup Marked("B", LoopIndices(6, LAMBDA i : TRUE, mapped))
    /\ barPos1' = CMod(barPos1 + 1, RING_LEDS)
    /\ barPos2' = CMod(barPos2 + 1, RING_LEDS)
    /\ gHue' = U8(gHue + 1)
    /\ shows' = Show(shows)
    /\ slept' = vTaskDelay(slept, 30)
    /\ FrameDone
    /\ UNCHANGED <<startHueRing1, startHueRing2, theatreOffset, wipeExp, wipeColor,
                  sideWipeInitialized, toggle, pulseCounter, dropCounter, runIndex1,
                  runIndex2, laserPos1, laserPos2, strobeOn, strobeCount, cometPos1,
                  cometPos2, bouncePos1, bounceDir1, bouncePos2, bounceDir2, swirlX,
                  rippleCenter1, rippleCenter2, shockInitialized, shockExp, shockCenter1,
                  shockCenter2, slicePos1, slicePos2, gapPos1, gapPos2, wipeRendered>>

\* abs(x)
Abs(x) == IF x < 0 THEN 0 - x ELSE x

\* lines 517-521: the brightness of pixel i of a ripple centred at center
RippleBri(i, center) ==
    LET d == Min(Abs(i - center), RING_LEDS - Abs(i - center))
    IN  Max(0, Min(255, U8(255 - d * (255 \div (RING_LEDS \div 2)))))

\* case 18, lines 513-540: liquid ripple
Case18 ==
    /\ rpc = "case" /\ sw = 18
    /\ LET idxA(i) == i
           idxB(i) == RING_LEDS + Mirror(i)
           ring1 == LoopWrite(leds, RING_LEDS, LAMBDA i : TRUE, idxA,
                       LAMBDA i : CHSV(gHue, 255, RippleBri(i, rippleCenter1)))
       IN  /\ leds' = LoopWrite(ring1, RING_LEDS, LAMBDA i : TRUE, idxB,
                          LAMBDA i : CHSV(gHue + 128, 255, RippleBri(i, rippleCenter2)))
           /\ written' = written
                  \cup Marked("A", LoopIndices(RING_LEDS, LAMBDA i : TRUE, idxA))
                  \cup Marked("B", LoopIndices(RING_LEDS, LAMBDA i : TRUE, idxB))
    /\ rippleCenter1' = CMod(rippleCenter1 + 1, RING_LEDS)
    /\ rippleCenter2' = CMod(rippleCenter2 + 1, RING_LEDS)
    /\ gHue' = U8(gHue + 1)
    /\ shows' = Show(shows)
    /\ slept' = vTaskDelay(slept, 40)
    /\ FrameDone
    /\ UNCHANGED <<startHueRing1, startHueRing2, theatreOffset, wipeExp, wipeColor,
                  sideWipeInitialized, toggle, pulseCounter, dropCounter, runIndex1,
                  runIndex2, laserPos1, laserPos2, strobeOn, strobeCount, cometPos1,
                  cometPos2, bouncePos1, bounceDir1, bouncePos2, bounceDir2, swirlX,
                  barPos1, barPos2, shockInitialized, shockExp, shockCenter1, shockCenter2,
                  slicePos1, slicePos2, gapPos1, gapPos2, wipeRendered>>

\* case 19, lines 542-551: full throttle pulse
Case19 ==
    /\ rpc = "case" /\ sw = 19
    /\ \E pulseVal \in PulseValues :
        leds' = fill_solid(leds, 0, NUM_LEDS, CHSV(gHue, 255, pulseVal))
    /\ written' = written \cup Marked("all", Span(0, NUM_LEDS))
    /\ gHue' = U8(gHue + 1)
    /\ shows' = Show(shows)
    /\ slept' = vTaskDelay(slept, 20)
    /\ FrameDone
    /\ UNCHANGED <<startHueRing1, startHueRing2, theatreOffset, wipeExp, wipeColor,
                  sideWipeInitialized, toggle, pulseCounter, dropCounter, moreStateVars,
                  wipeRendered>>

\* case 20, lines 553-563: rave strobe
Case20 ==
    /\ rpc = "case" /\ sw = 20
    /\ leds' = fill_solid(fill_solid(leds, 0, RING_LEDS, CHSV(gHue, 255, 255)),
                          RING_LEDS, RING_LEDS, CHSV(gHue + 64, 255, 255))
    /\ written' = written \cup Marked("A", Span(0, RING_LEDS))
                          \cup Marked("B", Span(RING_LEDS, RING_LEDS))
    /\ gHue' = U8(gHue + 5)
    /\ shows' = Show(shows)
    /\ slept' = vTaskDelay(slept, 20)
    /\ FrameDone
    /\ UNCHANGED <<startHueRing1, startHueRing2, theatreOffset, wipeExp, wipeColor,
                  sideWipeInitialized, toggle, pulseCounter, dropCounter, moreStateVars,
                  wipeRendered>>

\* case 21 counting its frames in theatreOffset, the counter of case 3
Case21SharedCounter ==
    /\ rpc = "case" /\ sw = 21
    /\ LET bri == IF CMod(theatreOffset, 60) < 5 THEN 255 ELSE 220
       IN  leds' = fill_solid(leds, 0, NUM_LEDS, CHSV(gHue, 255, bri))
    /\ written' = written \cup Marked("all", Span(0, NUM_LEDS))
    /\ theatreOffset' = CMod(theatreOffset + 1, 60)
    /\ gHue' = U8(gHue + 1)
    /\ shows' = Show(shows)
    /\ slept' = vTaskDelay(slept, 30)
    /\ FrameDone
    /\ UNCHANGED <<startHueRing1, startHueRing2, wipeExp, wipeColor, sideWipeInitialized,
                  toggle, pulseCounter, dropCounter, moreStateVars, wipeRendered>>

\* case 21, lines 565-579: thunder pulse
Case21 ==
    /\ rpc = "case" /\ sw = 21
    /\ LET bri == IF CMod(pulseCounter, 60) < 5 THEN 255 ELSE 220
       IN  leds' = fill_solid(leds, 0, NUM_LEDS, CHSV(gHue, 255, bri))
    /\ written' = written \cup Marked("all", Span(0, NUM_LEDS))
    /\ pulseCounter' = CMod(pulseCounter + 1, 60)
    /\ gHue' = U8(gHue + 1)
    /\ shows' = Show(shows)
    /\ slept' = vTaskDelay(slept, 30)
    /\ FrameDone
    /\ UNCHANGED <<startHueRing1, startHueRing2, theatreOffset, wipeExp, wipeColor,
                  sideWipeInitialized, toggle, dropCounter, moreStateVars, wipeRendered>>

\* a distance that is not folded around the ring
ShockDistanceUnfolded(i, center) == Abs(i - center)

\* lines 591-592 and 600-601: the distance of pixel i from center on the ring
ShockDistance(i, center) ==
    LET d == Abs(i - center)
    IN  IF d > RING_LEDS \div 2 THEN RING_LEDS - d ELSE d

\* case 22, lines 581-618: shockwave.  The statics of lines 583-584 are
\* initialised by random(RING_LEDS) when the case first runs.
Case22 ==
    /\ rpc = "case" /\ sw = 22
    /\ \E center1 \in (IF shockInitialized THEN {shockCenter1} ELSE RandomPositions),
          center2 \in (IF shockInitialized THEN {shockCenter2} ELSE RandomPositions) :
        LET in1(i) == ShockDistance(i, center1) <= shockExp
            in2(i) == ShockDistance(i, center2) <= shockExp
            idxA(i) == i
            idxB(i) == RING_LEDS + ((RING_LEDS - 1) - i)
            ring1 == LoopWrite(fill_solid(leds, 0, NUM_LEDS, Black), RING_LEDS, in1,
                               idxA, LAMBDA i : CHSV(gHue, 255, 255))
            reset == shockExp + 3 > 12
        IN  /\ leds' = LoopWrite(ring1, RING_LEDS, in2, idxB,
                                 LAMBDA i : CHSV(gHue + 32, 255, 255))
            /\ written' = written \cup Marked("all", Span(0, NUM_LEDS))
                   \cup Marked("A", LoopIndices(RING_LEDS, in1, idxA))
                   \cup Marked("B", LoopIndices(RING_LEDS, in2, idxB))
            /\ shockExp' = IF reset THEN 0 ELSE shockExp + 3
            /\ shockCenter1' \in (IF reset THEN RandomPositions ELSE {center1})
            /\ shockCenter2' \in (IF reset THEN RandomPositions ELSE {center2})
            /\ gHue' = IF reset THEN U8(gHue + 1) ELSE gHue
    /\ shockInitialized' = TRUE
    /\ shows' = Show(shows)
    /\ slept' = vTaskDelay(slept, 10)
    /\ FrameDone
    /\ UNCHANGED <<startHueRing1, startHueRing2, theatreOffset, wipeExp, wipeColor,
                  sideWipeInitialized, toggle, pulseCounter, dropCounter, runIndex1,
                  runIndex2, laserPos1, laserPos2, strobeOn, strobeCount, cometPos1,
                  cometPos2, bouncePos1, bounceDir1, bouncePos2, bounceDir2, swirlX,
                  barPos1, barPos2, rippleCenter1, rippleCenter2, slicePos1, slicePos2,
                  gapPos1, gapPos2, wipeRendered>>

\* case 23, lines 620-634: bass drop
Case23 ==
    /\ rpc = "case" /\ sw = 23
    /\ leds' = fill_solid(leds, 0, NUM_LEDS,
                          IF CMod(dropCounter, 4) = 0 THEN CHSV(gHue, 255, 255)
                          ELSE Black)
    /\ written' = written \cup Marked("all", Span(0, NUM_LEDS))
    /\ dropCounter' = dropCounter + 1
    /\ gHue' = U8(gHue + 3)
    /\ shows' = Show(shows)
    /\ slept' = vTaskDelay(slept, 100)
    /\ FrameDone
    /\ UNCHANGED <<startHueRing1, startHueRing2, theatreOffset, wipeExp, wipeColor,
                  sideWipeInitialized, toggle, pulseCounter, moreStateVars, wipeRendered>>

\* lines 637-638
bars == 3
barWidth == RING_LEDS \div bars

\* case 24, lines 636-664: dynamic bar graph; the loop over b and i is the loop
\* over k = b * barWidth + i
Case24 ==
    /\ rpc = "case" /\ sw = 24
    /\ \E draws \in BarDraws :
        LET height1 == draws[1]
            height2 == draws[2]
            b(k) == k \div barWidth
            i(k) == k % barWidth
            idx(k) == b(k) * barWidth + i(k)
            revIdx(k) == RING_LEDS + (b(k) * barWidth + (barWidth - 1 - i(k)))
            ring1 == LoopWrite(leds, bars * barWidth, LAMBDA k : TRUE, idx,
                        LAMBDA k : IF i(k) < height1[b(k)]
                                   THEN CHSV(CMod(gHue + b(k) * 40, 256), 255, 255)
                                   ELSE Black)
        IN  /\ leds' = LoopWrite(ring1, bars * barWidth, LAMBDA k : TRUE, revIdx,
                           LAMBDA k : IF i(k) < height2[b(k)]
                                      THEN CHSV(CMod(gHue + 128 + b(k) * 40, 256), 255, 255)
                                      ELSE Black)
            /\ written' = written
                   \cup Marked("A", LoopIndices(bars * barWidth, LAMBDA k : TRUE, idx))
                   \cup Marked("B", LoopIndices(bars * barWidth, LAMBDA k : TRUE, revIdx))
    /\ gHue' = U8(gHue + 1)
    /\ shows' = Show(shows)
    /\ slept' = vTaskDelay(slept, 80)
    /\ FrameDone
    /\ UNCHANGED <<startHueRing1, startHueRing2, theatreOffset, wipeExp, wipeColor,
                  sideWipeInitialized, toggle, pulseCounter, dropCounter, moreStateVars,
                  wipeRendered>>

\* case 25, lines 666-690: sonic slicer, sliceWidth = 6
Case25 ==
    /\ rpc = "case" /\ sw = 25
    /\ LET pos1(i) == CMod(slicePos1 + i, RING_LEDS)
           mapped(i) == RING_LEDS + Mirror(CMod(slicePos2 + i, RING_LEDS))
           ring1 == LoopWrite(fadeToBlackBy(leds, 80), 6, LAMBDA i : TRUE, pos1,
                              LAMBDA i : CHSV(gHue, 255, 255))
       IN  /\ leds' = LoopWrite(ring1, 6, LAMBDA i : TRUE, mapped,
                                LAMBDA i : CHSV(gHue + 64, 255, 255))
           /\ written' = written \cup Marked("all", Span(0, NUM_LEDS))
                  \cup Marked("A", LoopIndices(6, LAMBDA i : TRUE, pos1))
                  \cup Marked("B", LoopIndices(6, LAMBDA i : TRUE, mapped))
    /\ slicePos1' = CMod(slicePos1 + 2, RING_LEDS)
    /\ slicePos2' = CMod(slicePos2 + 2, RING_LEDS)
    /\ gHue' = U8(gHue + 2)
    /\ shows' = Show(shows)
    /\ slept' = vTaskDelay(slept, 10)
    /\ FrameDone
    /\ UNCHANGED <<startHueRing1, startHueRing2, theatreOffset, wipeExp, wipeColor,
                  sideWipeInitialized, toggle, pulseCounter, dropCounter, runIndex1,
                  runIndex2, laserPos1, laserPos2, strobeOn, strobeCount, cometPos1,
                  cometPos2, bouncePos1, bounceDir1, bouncePos2, bounceDir2, swirlX,
                  barPos1, barPos2, rippleCenter1, rippleCenter2, shockInitialized,
                  shockExp, shockCenter1, shockCenter2, gapPos1, gapPos2, wipeRendered>>

\* case 26, lines 692-718: radial surge, gapWidth = 4
Case26 ==
    /\ rpc = "case" /\ sw = 26
    /\ LET pos1(i) == CMod(gapPos1 + i, RING_LEDS)
           mapped(i) == RING_LEDS + Mirror(CMod(gapPos2 + i, RING_LEDS))
           filled == fill_solid(fill_solid(leds, 0, RING_LEDS, CHSV(gHue, 255, 255)),
                                RING_LEDS, RING_LEDS, CHSV(gHue + 64, 255, 255))
           ring1 == LoopWrite(filled, 4, LAMBDA i : TRUE, pos1, LAMBDA i : Black)
       IN  /\ leds' = LoopWrite(ring1, 4, LAMBDA i : TRUE, mapped, LAMBDA i : Black)
           /\ written' = written
                  \cup Marked("A", Span(0, RING_LEDS))
                  \cup Marked("B", Span(RING_LEDS, RING_LEDS))
                  \cup Marked("A", LoopIndices(4, LAMBDA i : TRUE, pos1))
                  \cup Marked("B", LoopIndices(4, LAMBDA i : TRUE, mapped))
    /\ gapPos1' = CMod(gapPos1 + 3, RING_LEDS)
    /\ gapPos2' = CMod(gapPos2 + 3, RING_LEDS)
    /\ gHue' = U8(gHue + 1)
    /\ shows' = Show(shows)
    /\ slept' = vTaskDelay(slept, 50)
    /\ FrameDone
    /\ UNCHANGED <<startHueRing1, startHueRing2, theatreOffset, wipeExp, wipeColor,
                  sideWipeInitialized, toggle, pulseCounter, dropCounter, runIndex1,
                  runIndex2, laserPos1, laserPos2, strobeOn, strobeCount, cometPos1,
                  cometPos2, bouncePos1, bounceDir1, bouncePos2, bounceDir2, swirlX,
                  barPos1, barPos2, rippleCenter1, rippleCenter2, shockInitialized,
                  shockExp, shockCenter1, shockCenter2, slicePos1, slicePos2, wipeRendered>>

\* a default case that ends the task
CaseDefaultHalt ==
    /\ rpc = "case" /\ sw \notin 0..(numModes - 1)
    /\ rpc' = "halt"
    /\ UNCHANGED <<sw, leds, modeStateVars, sharedVars, buttonVars, webVars, eventVars,
                   frameVars, modeWritten, timeVars, statusVars>>

\* a default case that leaves the buffer as the last frame left it
CaseDefaultStale ==
    /\ rpc = "case" /\ sw \notin 0..(numModes - 1)
    /\ leds' = leds
    /\ written' = written
    /\ shows' = Show(shows)
    /\ slept' = vTaskDelay(slept, 50)
    /\ FrameDone
    /\ UNCHANGED <<firstStateVars, moreStateVars, wipeRendered>>

\* default, lines 720-724
CaseDefault ==
    /\ rpc = "case" /\ sw \notin 0..(numModes - 1)
    /\ leds' = fill_solid(leds, 0, NUM_LEDS, Black)
    /\ written' = written \cup Marked("all", Span(0, NUM_LEDS))
    /\ shows' = Show(shows)
    /\ slept' = vTaskDelay(slept, 50)
    /\ FrameDone
    /\ UNCHANGED <<firstStateVars, moreStateVars, wipeRendered>>

(***************************************************************************)
(* statusLEDTask (lines 732-779).  One action is one iteration of its      *)
(* loop: it reads the number of stations and no other shared variable.     *)
(***************************************************************************)
\* line 737
NUM_PARTITIONS == 12
\* 256 / NUM_PARTITIONS rounded up
hueStepCeiling == U8((256 + NUM_PARTITIONS - 1) \div NUM_PARTITIONS)
\* line 738: a uint8_t
hueStep == U8(256 \div NUM_PARTITIONS)
\* line 740
brightnessStep == 3

\* gammaCorrect (lines 56-60), kept as the call
gammaCorrect(value) == <<"gammaCorrect", value>>

\* lines 744-749: no station connected, the LED flashes red
StatusFlash ==
    /\ redState' = ~redState
    /\ statusPixel' = IF ~redState THEN Rgb(255, 0, 0) ELSE Rgb(0, 0, 0)
    /\ statusSlept' = 200
    /\ UNCHANGED <<statusBrightness, increasing, statusHue, pulseRestarted, hueSteps>>

\* lines 752-769: the next brightness, direction, hue and flag of the heartbeat
StatusBeat ==
    IF increasing
    THEN LET b == statusBrightness + brightnessStep
         IN  /\ statusBrightness' = IF b >= 255 THEN 255 ELSE b
             /\ increasing' = ~(b >= 255)
             /\ pulseRestarted' = FALSE
             /\ UNCHANGED <<statusHue, hueSteps>>
    ELSE LET b == statusBrightness - brightnessStep
             advance == b <= 0 /\ ~pulseRestarted
         IN  /\ statusBrightness' = IF b <= 0 THEN 0 ELSE b
             /\ increasing' = (b <= 0)
             /\ pulseRestarted' = (pulseRestarted \/ b <= 0)
             /\ statusHue' = IF advance THEN U8(statusHue + hueStep) ELSE statusHue
             /\ hueSteps' = IF advance THEN hueSteps + 1 ELSE hueSteps

\* lines 751-776: a station is connected, the LED breathes
StatusBreathe ==
    /\ StatusBeat
    /\ statusPixel' = CHSVOf(statusHue', 255, gammaCorrect(U8(statusBrightness')))
    /\ statusSlept' = 10
    /\ UNCHANGED redState

\* one iteration of the loop of line 742, WiFi.softAPgetStationNum() being one
\* of Stations
StatusTick(Stations) ==
    /\ hueSteps < MaxHueSteps
    /\ \E n \in Stations :
        /\ stationNum' = n
        /\ IF n = 0 THEN StatusFlash ELSE StatusBreathe
    /\ UNCHANGED <<sharedVars, buttonVars, webVars, renderVars, eventVars, frameVars,
                   modeWritten, timeVars>>

\* the status LED alone, stations coming and going
NextStatus == StatusTick({0, 1})

SpecStatus == Init /\ [][NextStatus]_vars

\* the persistent variables (counters, hues, flags) the rendering of mode n
\* reads
ModeReads(n) ==
    CASE n = 0 -> <<startHueRing1, startHueRing2>>
      [] n = 2 -> <<toggle>>
      [] n = 3 -> <<theatreOffset>>
      [] n = 4 -> <<wipeExp, wipeColor, sideWipeInitialized>>
      [] n \in {6, 7, 20} -> <<gHue>>
      [] n = 21 -> <<pulseCounter, gHue>>
      [] n = 23 -> <<dropCounter, gHue>>
      [] OTHER -> << >>

\* those of them that no other mode reads or writes: all but gHue
ModePrivate(n) ==
    CASE n = 0 -> <<startHueRing1, startHueRing2>>
      [] n = 2 -> <<toggle>>
      [] n = 3 -> <<theatreOffset>>
      [] n = 4 -> <<wipeExp, wipeColor, sideWipeInitialized>>
      [] n = 21 -> <<pulseCounter>>
      [] n = 23 -> <<dropCounter>>
      [] OTHER -> << >>

\* the render task stands inside an iteration, after the switch
InIteration == rpc \in {"case", "wipe"}

\* texts of the modes modelled
WipeModeTexts == {<<"0">>, <<"4">>}
AllModeTexts == {<<"0">>, <<"1">>, <<"2">>, <<"3">>, <<"4">>, <<"6">>, <<"7">>,
                 <<"2", "0">>, <<"2", "1">>, <<"2", "3">>, <<"2", "7">>}

\* the render loop in modes 0 and 4, the mode set by requests
NextWipe ==
    \/ RenderStart
    \/ RenderSwitch(MaxFrames)
    \/ Case0
    \/ Case4Enter
    \/ Case4Wipe
    \/ HandleSetMode(WipeModeTexts)

SpecWipe == Init /\ [][NextWipe]_vars

\* the render loop in every mode modelled, the mode set by requests
NextModes ==
    \/ RenderStart
    \/ RenderSwitch(MaxModeFrames)
    \/ Case0 \/ Case1 \/ Case2 \/ Case3
    \/ Case4Enter
    \/ Case4Wipe
    \/ Case6 \/ Case7
    \/ Case20 \/ Case21 \/ Case23
    \/ HandleSetMode(AllModeTexts)

SpecModes == Init /\ [][NextModes]_vars

\* the decimal text of a number, as a request carries it
RECURSIVE DecimalText(_)
DecimalText(n) ==
    IF n < 10 THEN <<DigitChars[n + 1]>>
    ELSE Append(DecimalText(n \div 10), DigitChars[(n % 10) + 1])

\* texts of every mode, and of 27
EveryModeTexts == {DecimalText(n) : n \in 0..numModes}

\* samples with only the mode-decrement button in use
DecPins == {p \in AllPins : p[1] = "HIGH" /\ p[3] = "HIGH" /\ p[4] = "HIGH"}

\* one step of ledRingTask in a mode within 0..26
ModeStep ==
    \/ Case0 \/ Case1 \/ Case2 \/ Case3
    \/ Case4Enter
    \/ Case4Wipe
    \/ Case5 \/ Case6 \/ Case7 \/ Case8 \/ Case9 \/ Case10 \/ Case11 \/ Case12
    \/ Case13 \/ Case14 \/ Case15 \/ Case16 \/ Case17 \/ Case18 \/ Case19
    \/ Case20 \/ Case21 \/ Case22 \/ Case23 \/ Case24 \/ Case25 \/ Case26

\* the modes that fade the frame and then light pixels drawn at random: the
\* frames they can produce multiply with every iteration
FadingRandomModes == {5, 6, 7, 16}

\* the iterations the render loop runs in the mode set
FrameLimit == IF currentMode \in FadingRandomModes THEN MaxModeFrames ELSE MaxLongFrames

\* the render loop in any one mode, set by requests before the loop starts
\* and left alone from then on
NextAll ==
    \/ (rpc = "start" /\ HandleSetMode(EveryModeTexts))
    \/ RenderStart
    \/ RenderSwitch(FrameLimit)
    \/ ModeStep

SpecAll == Init /\ [][NextAll]_vars

\* the render loop in mode 0 from power-on, no mode change
NextRainbow ==
    \/ RenderStart
    \/ RenderSwitch(MaxRainbowFrames)
    \/ Case0

SpecRainbow == Init /\ [][NextRainbow]_vars

\* the mode-decrement button, pressed only while the mode is 0
ScanDecFromZero ==
    /\ ButtonScan(DecPins, TRUE)
    /\ FallingEdge(stateModeDec', lastModeDecState) => currentMode = 0

\* one step of ledRingTask with the mode-decrement button pressed in mode 0:
\* the modes are 0, -1 for a moment (between lines 806 and 808) and 26
DefaultRenderStep ==
    \/ RenderStart
    \/ RenderSwitch(MaxFrames)
    \/ Case0
    \/ Case26
    \/ CaseDefault

\* the render loop and the mode-decrement button
NextDefault ==
    \/ ScanDecFromZero
    \/ ButtonSkip
    \/ ModeDecRead \/ ModeDecWrite \/ ModeDecTest \/ ModeDecWrap
    \/ ButtonDebounce
    \/ ButtonLatch
    \/ DefaultRenderStep

SpecDefault == Init /\ [][NextDefault]_vars

\* The three tasks have priority 1 and run on core 0 (lines 866-870), where
\* FreeRTOS shares the time among the ready tasks of one priority in turn, and
\* the other two tasks sleep in every iteration: ledRingTask is never kept
\* from its next step for ever.  Nothing is asked of the button: it may be
\* pressed or left alone.
SpecDefaultFair == SpecDefault /\ WF_vars(DefaultRenderStep)

\* the same with the status LED task, no station connected
NextOwners ==
    \/ NextAll
    \/ StatusTick({0})

SpecOwners == Init /\ [][NextOwners]_vars

(***************************************************************************)
(* Claims about the control side                                           *)
(***************************************************************************)
ValidModes == 0..(numModes - 1)
ValidBrightness == 0..255

\* C1: in every reachable state, the states between the statements of a
\* button mode event included, currentMode is within 0..26.
C1_ModeAlwaysInRange == currentMode \in ValidModes

\* C2: in every reachable state, the states between the +/-10 and the clamp
\* of a button brightness event included, ringBrightness is within 0..255.
C2_BrightnessAlwaysInRange == ringBrightness \in ValidBrightness

\* C5: when handleSet has run, each field was applied on its own: a mode text
\* whose value is in 0..26 is the mode, any other leaves the mode as it was;
\* a brightness text whose value is in 0..255 is the brightness, any other
\* leaves the brightness as it was.
C5_SetFieldByField ==
    wpc = "reply" =>
        /\ currentMode = IF hasArgMode /\ ToInt(argMode) \in ValidModes
                         THEN ToInt(argMode) ELSE modeBefore
        /\ ringBrightness = IF hasArgBright /\ ToInt(argBright) \in ValidBrightness
                            THEN ToInt(argBright) ELSE brightBefore

\* a request with mode 27 and brightness 7, made in mode 4, has left the mode
\* at 4 and set the brightness to 7
C5_Witness ==
    /\ wpc = "reply"
    /\ hasArgMode /\ ToInt(argMode) = 27
    /\ hasArgBright /\ ToInt(argBright) = 7
    /\ modeBefore = 4 /\ currentMode = 4
    /\ brightBefore # 7 /\ ringBrightness = 7

\* C6 as claimed: a brightness request is clamped to [0,255] (300 gives 255,
\* -5 gives 0).
C6_SetBrightnessClamps ==
    (wpc = "reply" /\ hasArgBright) =>
        ringBrightness = Max(0, Min(255, ToInt(argBright)))

\* C6 as amended: a brightness request outside [0,255] is ignored (300 and -5
\* leave the brightness, and the brightness of the driver, as they were).
C6_SetBrightnessOutOfRangeIgnored ==
    (wpc = "reply" /\ hasArgBright /\ ToInt(argBright) \notin ValidBrightness) =>
        /\ ringBrightness = brightBefore
        /\ fastledBrightness = U8(brightBefore)

\* a request for brightness 300, made at brightness 7, has left it at 7
C6_Witness ==
    /\ wpc = "reply"
    /\ hasArgBright /\ ToInt(argBright) = 300
    /\ brightBefore = 7 /\ ringBrightness = 7 /\ fastledBrightness = 7

\* C7: a completed mode-increment event with no other writer in between has
\* changed mode m to (m+1) mod 27, a completed mode-decrement event has
\* changed m to (m+26) mod 27.
C7_ModeButtonsWrap ==
    /\ (bpc = "inc_d" /\ ~evDirty) =>
           (evStart \in ValidModes /\ currentMode = (evStart + 1) % numModes)
    /\ (bpc = "dec_d" /\ ~evDirty) =>
           (evStart \in ValidModes /\ currentMode = (evStart + numModes - 1) % numModes)

\* a decrement from mode 0 has given mode 26
C7_Witness == bpc = "dec_d" /\ ~evDirty /\ evStart = 0 /\ currentMode = 26

\* C8: a completed brightness-increase event with no other writer in between
\* has changed brightness b to min(255, b+10), a completed brightness-decrease
\* event has changed b to max(0, b-10).
C8_BrightButtonsClamp ==
    /\ (bpc = "binc_d" /\ ~evDirty) =>
           (evStart \in ValidBrightness /\ ringBrightness = Min(255, evStart + 10))
    /\ (bpc = "bdec_d" /\ ~evDirty) =>
           (evStart \in ValidBrightness /\ ringBrightness = Max(0, evStart - 10))

\* an increase from 246, the least brightness that overshoots, has given 255
C8_Witness == bpc = "binc_d" /\ ~evDirty /\ evStart = 246 /\ ringBrightness = 255


(***************************************************************************)
(* Claims about the render loop                                            *)
(***************************************************************************)
\* C3: when mode 4 has rendered a frame, mode 0 has then been rendered and the
\* mode is 4 again, the first iteration after re-entry performs the one-time
\* clear: past the if statement of line 199 all 96 pixels are black and
\* wipeExp is 0.
C3_ReentryClears ==
    (rpc = "wipe" /\ sw = 4 /\ lastRendered = 0 /\ wipeRendered) =>
        (AllBlack(leds) /\ wipeExp = 0)

C9_WrittenModeRendered ==
    (~modeWritten /\ currentMode \in ValidModes) =>
        /\ InIteration => sw = currentMode
        /\ (rpc = "loop" /\ lastRendered # NoMode) => lastRendered = currentMode

\* mode 0 was rendered, mode 4 was then written, and the iteration that
\* started after the write renders mode 4
C9_Witness ==
    /\ rpc = "case" /\ ~modeWritten
    /\ lastRendered = 0 /\ currentMode = 4 /\ sw = 4

ModeDelays == <<10, 50, 100, 50, 15, 30, 20, 20, 30, 20, 30, 30, 40, 20, 30, 20, 30, 30,
                40, 20, 20, 30, 10, 100, 80, 10, 50>>
ModeDelay(m) == ModeDelays[m + 1]

\* an iteration of the render loop has ended
IterationDone == rpc = "loop" /\ lastRendered # NoMode

\* C11 as claimed: every iteration sleeps once, for the delay of the mode it
\* rendered, whatever the state of the mode, and that delay is within 10..100.
C11_OneDelayPerMode ==
    (IterationDone /\ lastRendered \in ValidModes) =>
        /\ slept = <<ModeDelay(lastRendered)>>
        /\ ModeDelay(lastRendered) \in 10..100

\* C11 as amended: every iteration sleeps once, for the delay of the mode it
\* rendered, within 10..100, but for the iteration in which mode 4 clears the
\* rings on first entry, which sleeps 50 ms after the clear and 15 ms after
\* the wipe step.
C11_OneDelayUnlessWipeCleared ==
    (IterationDone /\ lastRendered \in ValidModes) =>
        /\ cleared => lastRendered = 4
        /\ slept = IF cleared THEN <<50, ModeDelay(4)>> ELSE <<ModeDelay(lastRendered)>>
        /\ ModeDelay(lastRendered) \in 10..100

\* mode 10 has rendered a strobe flash, not its first frame, and has slept 30 ms
C11_Witness ==
    /\ IterationDone /\ lastRendered = 10 /\ strobeOn /\ strobeCount = 2
    /\ slept = <<30>>

\* a step of the render loop, or of the status-LED loop
RenderOrStatusStep == rpc' # rpc \/ statusVars' # statusVars

PixelHue(p) == p[1][2]

\* the hue of pixel i of ring 1, and the start hue of the frame in the buffer
RingHue(i) == PixelHue(leds[i])
FrameStartHue == U8(startHueRing1 - 1)

\* the step from pixel i to the next pixel of the ring, pixel 0 after pixel 47
HueStepAfter(i) == U8(RingHue((i + 1) % RING_LEDS) - RingHue(i))

\* a frame of mode 0 is in the buffer
RainbowFrame == IterationDone /\ lastRendered = 0

\* C13: in a frame of mode 0 (ringSize 48, any start hue), every step from a
\* pixel to the next, the step from pixel 47 back to pixel 0 included, is 5 or
\* 6, the steps add up to one turn of 256 (the hues are strictly increasing
\* modulo 256), and pixel i's hue is less than one unit away from
\* startHue + i * 256 / 48.
C13_RainbowStepsFiveOrSix ==
    RainbowFrame =>
        /\ \A i \in 0..(RING_LEDS - 1) : HueStepAfter(i) \in {5, 6}
        /\ \A i \in 0..(RING_LEDS - 1) :
               LET offset == U8(RingHue(i) - FrameStartHue)
                   diff == RING_LEDS * offset - 256 * i
               IN  /\ diff < RING_LEDS /\ 0 - diff < RING_LEDS
                   /\ i > 0 => offset > U8(RingHue(i - 1) - FrameStartHue)
        /\ \A i \in 0..(RING_LEDS - 1) : RingHue(i) = PixelHue(leds[RING_LEDS + i])

\* the frame of start hue 250: the hues pass 255 and go on from 4
C13_Witness ==
    /\ RainbowFrame /\ FrameStartHue = 250
    /\ RingHue(0) = 250 /\ RingHue(1) = 255 /\ RingHue(2) = 4 /\ RingHue(3) = 10
    /\ RingHue(47) = 244

\* C14: from power-on in mode 0 with no mode change, after n frames the start
\* hue of both rings is n modulo 256, and the hue of pixel 0 of ring 1 in the
\* frame rendered next is the first hue of the distribution for start hue
\* n modulo 256.
C14_StartHueCountsFrames ==
    RainbowFrame =>
        /\ startHueRing1 = frames % 256
        /\ startHueRing2 = frames % 256
        /\ leds[0] = CHSV(RainbowHues(RING_LEDS, (frames - 1) % 256)[1], 255, 255)

\* 48 frames have been rendered and the start hue is 48
C14_Witness ==
    /\ RainbowFrame /\ frames = 48
    /\ startHueRing1 = 48 /\ startHueRing2 = 48 /\ RingHue(0) = 47

\* C15: every pixel write of every mode targets an index within 0..95; the
\* writes meant for ring 1 (Ring A) land in 0..47 and the writes meant for
\* ring 2 (Ring B), direct or through the mirrored mapping 48 + (47 - pos),
\* land in 48..95.
C15_WritesInsideRings ==
    \A w \in written :
        /\ w[2] \in 0..(NUM_LEDS - 1)
        /\ w[1] = "A" => w[2] \in 0..(RING_LEDS - 1)
        /\ w[1] = "B" => w[2] \in RING_LEDS..(NUM_LEDS - 1)

\* a frame of mode 9 with the band at positions 46, 47, 0: ring 1 is written
\* at 46, 47, 0 and ring 2 through the mirrored mapping at 49, 48, 95
C15_Witness ==
    /\ IterationDone /\ lastRendered = 9 /\ laserPos2 = 47
    /\ {<<"A", 46>>, <<"A", 47>>, <<"A", 0>>} \subseteq written
    /\ {<<"B", RING_LEDS + Mirror(46)>>, <<"B", RING_LEDS + Mirror(47)>>,
        <<"B", RING_LEDS + Mirror(0)>>} \subseteq written
    /\ RING_LEDS + Mirror(0) = NUM_LEDS - 1

\* the button whose event the task is handling, right after it was accepted
AcceptedNow ==
    CASE bpc = "inc_w" -> "modeInc"
      [] bpc = "dec_w" -> "modeDec"
      [] bpc = "binc_w" -> "brightInc"
      [] bpc = "bdec_w" -> "brightDec"
      [] OTHER -> NoSample

\* the sample of button b taken by the scan of this iteration
SampleOf(b) ==
    CASE b = "modeInc" -> stateModeInc
      [] b = "modeDec" -> stateModeDec
      [] b = "brightInc" -> stateBrightInc
      [] b = "brightDec" -> stateBrightDec

\* C16 as stated: an event is accepted only when the button is sampled LOW
\* and was sampled HIGH at the previous scan, and two accepted events of the
\* same button are at least 50 ms apart.
C16_EdgeAfterSampledHigh ==
    /\ AcceptedNow # NoSample =>
           SampleOf(AcceptedNow) = "LOW" /\ prevPins[AcceptedNow] = "HIGH"
    /\ gap >= debounceDelay

\* C16: an event is accepted only when the button is sampled LOW and either
\* it was sampled HIGH at the previous scan or this is the first scan after
\* power-on, for which the last states are preset to HIGH; two accepted events
\* of the same button are at least 50 ms apart.
C16_EdgeOrFirstScan ==
    /\ AcceptedNow # NoSample =>
           /\ SampleOf(AcceptedNow) = "LOW"
           /\ prevPins[AcceptedNow] \in {"HIGH", NoSample}
           /\ prevPins[AcceptedNow] = NoSample =>
                  \A b \in Buttons : prevPins[b] = NoSample
    /\ gap >= debounceDelay

\* a second event of the mode-decrement button is accepted 70 ms after the
\* first: the debounce sleep, a scan that samples HIGH, and two sleeps of 10 ms
C16_Witness ==
    /\ AcceptedNow = "modeDec" /\ presses = 2
    /\ prevPins["modeDec"] = "HIGH" /\ stateModeDec = "LOW"
    /\ gap = debounceDelay + 20

\* a step of the status task with a station connected: one 10 ms tick
BreatheTick == stationNum' = 1 /\ statusVars' # statusVars
\* the status hue advances by d in this step
HueAdvancesBy(d) == statusHue' = U8(statusHue + d)

\* NUM_PARTITIONS times the distance of the hue from hueSteps twelfths of the
\* wheel, while the hue has not come around
HueOffTwelfths ==
    IF hueSteps < NUM_PARTITIONS
    THEN NUM_PARTITIONS * statusHue - 256 * hueSteps
    ELSE 0

\* C17 as stated: the brightness stays within 0..255 and changes by exactly 3
\* per tick, up to 255 and then down to 0; the hue advances exactly when the
\* brightness returns to 0, by one twelfth of the 256-unit wheel (after k
\* advances the hue is less than one unit away from k * 256 / 12), so that 12
\* advances bring the hue once around the wheel.
C17_HueTwelfthOfWheel ==
    /\ statusBrightness = 0 /\ statusHue = 0
    /\ [](statusBrightness \in 0..255)
    /\ [][BreatheTick =>
            /\ statusBrightness' = IF increasing THEN statusBrightness + 3
                                   ELSE statusBrightness - 3
            /\ statusBrightness' # 0 => HueAdvancesBy(0)
            /\ statusBrightness' = 0 => hueSteps' = hueSteps + 1]_vars
    /\ [](HueOffTwelfths \in (1 - NUM_PARTITIONS)..(NUM_PARTITIONS - 1))
    /\ [](hueSteps = NUM_PARTITIONS => statusHue = 0)

\* C17: the brightness stays within 0..255 and changes by exactly 3 per tick,
\* up to 255 and then down to 0; the hue advances exactly when the brightness
\* returns to 0, by 21 = 256 div 12 units, so that 12 advances cover 252
\* of the 256 units of the wheel and the hue is 4 units short of its start.
C17_HueStepTwentyOne ==
    /\ statusBrightness = 0 /\ statusHue = 0
    /\ [](statusBrightness \in 0..255)
    /\ [][(BreatheTick =>
               /\ statusBrightness' = IF increasing THEN statusBrightness + 3
                                      ELSE statusBrightness - 3
               /\ increasing' = IF increasing THEN statusBrightness' # 255
                                ELSE statusBrightness' = 0
               /\ HueAdvancesBy(IF statusBrightness' = 0 THEN 21 ELSE 0))
          /\ (stationNum' = 0 => UNCHANGED <<statusBrightness, statusHue>>)]_vars
    /\ [](statusHue = (21 * hueSteps) % 256)
    /\ [](hueSteps = NUM_PARTITIONS => statusHue = 252)

\* the brightness is back at 0 for the twelfth time
C17_Witness ==
    /\ stationNum = 1 /\ statusSlept = 10
    /\ statusBrightness = 0 /\ increasing
    /\ hueSteps = NUM_PARTITIONS /\ statusHue = 252

\* a step of ledRingTask that ends an iteration whose switch saw a mode
\* outside 0..26
DefaultIteration == rpc = "case" /\ sw \notin ValidModes /\ rpc' # rpc

\* C18: an iteration that observes a mode outside 0..26 fills all 96 pixels
\* with black, outputs the frame once, sleeps 50 ms, changes no per-mode
\* state, and ends back at the head of the loop.
C18_DefaultIsBlackFrame ==
    [][DefaultIteration =>
          /\ \A i \in Pixels : leds'[i] = Black
          /\ shows' = 1
          /\ slept' = <<50>>
          /\ UNCHANGED modeStateVars
          /\ UNCHANGED sharedVars
          /\ rpc' = "loop"]_vars

\* the default case ran after a rainbow frame: the buffer is black and the
\* start hue of mode 0 is as that frame left it
C18_Witness ==
    /\ IterationDone /\ lastRendered = 0 - 1
    /\ frames = 2 /\ startHueRing1 = 1
    /\ \A i \in Pixels : leds[i] = Black
    /\ shows = 1 /\ slept = <<50>>

WipeFrame == IterationDone /\ lastRendered = 4

\* C20: in mode 4 wipeExp stays within 0..24 and the wipe colour is Blue or
\* Red; when a cycle of 25 frames that started at wipeExp = 0 has ended
\* (wipeExp is back at 0) all 96 pixels hold the colour of that cycle, which
\* is the other one than the colour of the next cycle; and the colour
\* changes, from Blue to Red or from Red to Blue, exactly in the step in
\* which wipeExp wraps from 24 back to 0.
C20_WipeCycle ==
    /\ wipeExp = 0 /\ wipeColor = Blue
    /\ [](wipeExp \in 0..24 /\ wipeColor \in {Blue, Red})
    /\ [](WipeFrame /\ wipeExp = 0 =>
              \A i \in Pixels : leds[i] = IF wipeColor = Blue THEN Red ELSE Blue)
    /\ [][/\ (wipeColor' # wipeColor) <=> (wipeExp = 24 /\ wipeExp' = 0)
          /\ wipeExp' # wipeExp =>
                 /\ rpc = "wipe"
                 /\ wipeExp' = IF wipeExp = 24 THEN 0 ELSE wipeExp + 1]_vars

\* the second cycle has ended: it was Red, the next will be Blue
C20_Witness ==
    /\ WipeFrame /\ frames = 50
    /\ wipeExp = 0 /\ wipeColor = Blue
    /\ \A i \in Pixels : leds[i] = Red

\* the render loop switched between mode 12 and mode 1 by requests that arrive
\* at any point of an iteration.  Only Case12 advances gHue here, so
\* frames - gHue counts the iterations begun outside mode 12; at most
\* MaxModeFrames of them are run.
BounceSwitch ==
    /\ rpc = "loop"
    /\ currentMode = 12 \/ frames - gHue < MaxModeFrames
    /\ RenderSwitch(MaxLongFrames)

NextBounce ==
    \/ HandleSetMode({DecimalText(1), DecimalText(12)})
    \/ RenderStart
    \/ BounceSwitch
    \/ Case1
    \/ Case12

SpecBounce == Init /\ [][NextBounce]_vars

\* an iteration of case 12 from its switch to its break
BounceFrame == rpc = "case" /\ sw = 12 /\ rpc' = "loop"

\* one bounce position and its direction over a step of case 12
BounceMove(pos, dir, posAfter, dirAfter) ==
    /\ posAfter = pos + dir
    /\ posAfter - pos \in {1, 0 - 1}
    /\ dirAfter \in {1, 0 - 1}
    /\ (dirAfter = 0 - dir) <=> (posAfter = 0 \/ posAfter = RING_LEDS - 1)

\* C21: in mode 12, whatever mode switches come in between, each bounce
\* position stays within 0..47, moves by exactly one per frame, and its
\* direction reverses exactly on the frames where the position reaches 0 or
\* 47; outside the frames of mode 12 the positions and directions stand still.
C21_BounceStaysOnRing ==
    [][/\ bouncePos1 \in 0..(RING_LEDS - 1) /\ bouncePos1' \in 0..(RING_LEDS - 1)
       /\ bouncePos2 \in 0..(RING_LEDS - 1) /\ bouncePos2' \in 0..(RING_LEDS - 1)
       /\ (BounceFrame =>
             /\ BounceMove(bouncePos1, bounceDir1, bouncePos1', bounceDir1')
             /\ BounceMove(bouncePos2, bounceDir2, bouncePos2', bounceDir2'))
       /\ ((~BounceFrame) =>
             UNCHANGED <<bouncePos1, bounceDir1, bouncePos2, bounceDir2>>)]_vars

\* both ends were reached and left again, with frames of mode 1 in between
C21_Witness ==
    /\ rpc = "loop" /\ lastRendered = 12
    /\ gHue = 2 * (RING_LEDS - 1) + 1
    /\ frames = gHue + MaxModeFrames
    /\ bouncePos1 = 1 /\ bounceDir1 = 1
    /\ bouncePos2 = 1 /\ bounceDir2 = 1

\* the modes whose case begins with fadeToBlackBy and then plots moving points
TrailModes == {6, 7, 8, 11, 12}

\* the amount of that fade: lines 251, 269, 293, 362, 385
FadeAmount(m) ==
    CASE m = 6 -> 20 [] m = 7 -> 20 [] m = 8 -> 50 [] m = 11 -> 40 [] m = 12 -> 50

\* the points a mode plots in one frame, both rings together; in mode 18 the
\* moving points are the two ripple centres
TrailPoints(m) ==
    CASE m = 6 -> 2 [] m = 7 -> 8 [] m = 8 -> 2 [] m = 11 -> 4 [] m = 12 -> 2
      [] m = 18 -> 2

\* an iteration of case m from its switch to its break
TrailFrame(m) == rpc = "case" /\ sw = m /\ rpc' = "loop"

\* a colour that no fade has touched since it was assigned
IsFresh(layer) == layer[5] = << >>

\* p is what plotting makes of the faded pixel f: unfaded colours added to f,
\* or unfaded colours in its place
PlottedOn(f, p) ==
    /\ Len(p) >= 1
    /\ \/ \A k \in 1..Len(p) : IsFresh(p[k])
       \/ /\ Len(p) > Len(f)
          /\ SubSeq(p, 1, Len(f)) = f
          /\ \A k \in (Len(f) + 1)..Len(p) : IsFresh(p[k])

\* this frame faded all 96 pixels by amount and then plotted at most
\* maxPoints points, at least one on each ring
FadeThenPlot(amount, maxPoints) ==
    LET plotted == {i \in Pixels : leds'[i] # FadePixel(leds[i], amount)}
    IN  /\ Marked("all", Pixels) \subseteq written'
        /\ \A i \in plotted : PlottedOn(FadePixel(leds[i], amount), leds'[i])
        /\ plotted \cap Span(0, RING_LEDS) # {}
        /\ plotted \cap Span(RING_LEDS, RING_LEDS) # {}
        /\ Cardinality(plotted) <= maxPoints

\* C22 as stated: in sinelon, juggle, running light, comets, bounce and
\* ripple, every frame first fades all 96 pixels by one amount in 10..80 and
\* only then plots the moving points.
C22_SixModesFadeFirst ==
    [][\A m \in TrailModes \cup {18} :
          TrailFrame(m) => \E amount \in 10..80 : FadeThenPlot(amount, TrailPoints(m))]_vars

\* C22 as amended: in modes 6, 7, 8, 11 and 12 every frame first fades all 96
\* pixels by the mode's amount (20, 20, 50, 40, 50) and only then plots the
\* moving points; mode 18 fades nothing and assigns every one of the 96 pixels
\* anew.
C22_FiveModesFadeFirst ==
    [][/\ \A m \in TrailModes :
             TrailFrame(m) =>
                 /\ FadeAmount(m) \in 10..80
                 /\ FadeThenPlot(FadeAmount(m), TrailPoints(m))
       /\ TrailFrame(18) =>
             /\ Marked("all", Pixels) \cap written' = {}
             /\ \A i \in Pixels : Len(leds'[i]) = 1 /\ IsFresh(leds'[i][1])]_vars

\* the comets of mode 11 after three frames: a pixel plotted in the first frame
\* has been faded twice, and the pixel plotted last is unfaded
C22_Witness ==
    /\ rpc = "loop" /\ lastRendered = 11 /\ frames = 3
    /\ leds[0] = FadePixel(FadePixel(CHSV(32, 255, 255), 40), 40)
    /\ leds[cometPos1 - 1] = CHSV(gHue - 1, 255, 255)

\* an iteration of case 22 from its switch to its break
ShockFrame == rpc = "case" /\ sw = 22 /\ rpc' = "loop"

\* the pixels of the ring starting at from that the frame just drawn lit
ShockLit(from) == {i \in Span(from, RING_LEDS) : leds'[i] # Black}

\* the centres a frame of case 22 draws around: the statics, set by their
\* initialisers when the case runs for the first time
ShockCenterDrawn(center, centerAfter) == IF shockInitialized THEN center ELSE centerAfter

\* C23: in mode 22 the radius rendered is 0, 3, 6, 9, 12 on consecutive frames
\* and then 0 again: a frame of radius r lights the 2r + 1 pixels around each
\* origin.  Both origins stay within 0..47 and are redrawn only at the
\* restart; the hue advances by exactly 1 at each restart and is unchanged on
\* all other frames.
C23_ShockwaveCycle ==
    [][/\ shockExp \in {0, 3, 6, 9, 12}
       /\ shockCenter1 \in Span(0, RING_LEDS) /\ shockCenter2 \in Span(0, RING_LEDS)
       /\ (ShockFrame =>
             /\ shockExp' = IF shockExp = 12 THEN 0 ELSE shockExp + 3
             /\ Cardinality(ShockLit(0)) = 2 * shockExp + 1
             /\ Cardinality(ShockLit(RING_LEDS)) = 2 * shockExp + 1
             /\ ShockCenterDrawn(shockCenter1, shockCenter1') \in ShockLit(0)
             /\ RING_LEDS + Mirror(ShockCenterDrawn(shockCenter2, shockCenter2'))
                    \in ShockLit(RING_LEDS)
             /\ \A i \in ShockLit(0) : leds'[i] = CHSV(gHue, 255, 255)
             /\ \A i \in ShockLit(RING_LEDS) : leds'[i] = CHSV(gHue + 32, 255, 255)
             /\ shockCenter1' \in Span(0, RING_LEDS)
             /\ shockCenter2' \in Span(0, RING_LEDS)
             /\ (shockInitialized /\ shockExp # 12) =>
                    UNCHANGED <<shockCenter1, shockCenter2>>
             /\ gHue' = IF shockExp = 12 THEN U8(gHue + 1) ELSE gHue)
       /\ ((~ShockFrame) =>
             UNCHANGED <<shockExp, shockCenter1, shockCenter2>>)]_vars

\* the second cycle, two frames in: the hue has advanced once, the origins were
\* drawn again away from 0, and the frame just shown had radius 3
C23_Witness ==
    /\ rpc = "loop" /\ lastRendered = 22 /\ frames = 7
    /\ shockExp = 6 /\ gHue = 1
    /\ shockCenter1 # shockCenter2 /\ shockCenter1 = RING_LEDS - 1
    /\ Cardinality({i \in Span(0, RING_LEDS) : leds[i] # Black}) = 7
    /\ leds[0] # Black

\* no button brightness event and no set request is in the middle of executing
BrightQuiet == wpc = "idle" /\ bpc \notin BrightEventPcs

\* C24: whenever no button brightness event and no network set request is in
\* the middle of executing, the brightness last applied to the output driver
\* equals the shared brightness ringBrightness, for every interleaving of the
\* button loop and the network handler.
C24_AppliedBrightnessAgrees == BrightQuiet => fastledBrightness = ringBrightness

\* one /set request with a mode argument, followed up to its reply (lines
\* 117-118), against the mode buttons
NextLinear ==
    \/ ButtonScan(ModePins, TRUE)
    \/ ButtonSkip
    \/ ModeButtonStep
    \/ ButtonDebounce
    \/ ButtonLatch
    \/ WebReceive(ModeTexts, {}, FALSE)
    \/ WebModeStep
    \/ WebSkipBright

SpecLinear == Init /\ [][NextLinear]_vars

\* a whole mode-decrement event applied to mode m: lines 806-808
ModeDecWhole(m) == IF ModeBelowZero(ModeDecValue(m)) THEN ModeWrapValue ELSE ModeDecValue(m)

\* the one request of the run was accepted and has written its mode
ModeSetDone == wpc = "reply" /\ hasArgMode /\ ModeInRange(ToInt(argMode))

\* C25: for every interleaving of one button mode-increment or mode-decrement
\* event with one accepted network mode set, the final mode index is the
\* result of the two updates applied one after the other in some order: the
\* requested mode (button first), or the button's update of the requested
\* mode (request first).
C25_ModeUpdatesLinearizable ==
    (presses = 1 /\ ModeSetDone) =>
        /\ bpc = "inc_d" =>
               currentMode \in {ToInt(argMode), ModeIncValue(ToInt(argMode))}
        /\ bpc = "dec_d" =>
               currentMode \in {ToInt(argMode), ModeDecWhole(ToInt(argMode))}

\* the render loop in mode 3, requested before the loop starts, for more
\* frames than theatreOffset has values
NextChase ==
    \/ (rpc = "start" /\ HandleSetMode({DecimalText(3)}))
    \/ RenderStart
    \/ RenderSwitch(MaxRainbowFrames)
    \/ Case0
    \/ Case3

SpecChase == Init /\ [][NextChase]_vars

\* the lit pixels of a frame buffer
ChaseLit(buf) == {i \in Pixels : buf[i] # Black}

\* an iteration of case 3 that follows a frame of case 3
ChaseFrame == rpc = "case" /\ sw = 3 /\ lastRendered = 3 /\ rpc' = "loop"

\* C26: in mode 3, on every pair of consecutive frames, the frames where the
\* 8-bit offset wraps from 255 to 0 included, the set of lit pixels shifts by
\* exactly one position (pixel i is lit when pixel i + 1 was, around the
\* buffer), so the pattern repeats with period 3.
C26_ChaseShiftsEveryFrame ==
    [][ChaseFrame =>
           ChaseLit(leds') = {i \in Pixels : ((i + 1) % NUM_LEDS) \in ChaseLit(leds)}]_vars

\* the modes that read ringBrightness while they draw, and the frame each
\* writes from the present state when the brightness is brightness
BrightnessReaders == {10, 13, 14, 17}

FrameWith(m, brightness) ==
    CASE m = 10 -> StrobeFrame(brightness)
      [] m = 13 -> SwirlFrame(brightness)
      [] m = 14 -> GridFrame(brightness)
      [] m = 17 -> BarFrame(brightness)

\* C27: the pixel values a mode writes into the frame buffer do not depend on
\* the brightness setting: from the same mode, per-mode state, buffer and
\* random draws, a run with any other brightness writes the frame this run
\* writes, in every frame.
C27_FramesIgnoreBrightness ==
    [][\A m \in BrightnessReaders :
          (rpc = "case" /\ sw = m /\ rpc' = "loop") =>
              \A brightness \in ValidBrightness : FrameWith(m, brightness) = leds']_vars

=============================================================================
